---- MODULE Spec2Model ----
(***************************************************************************)
(* wg-tui: the WireGuard configuration and live-state engine               *)
(* (src/src/wireguard.rs) and the part of the terminal application that    *)
(* drives it (src/src/app.rs).                                             *)
(*                                                                         *)
(* Strings are TLA+ strings; TLC evaluates Len, SubSeq and \o on them, so  *)
(* trimming, splitting and parsing are computed character by character as *)
(* the Rust code does.                                                     *)
(*                                                                         *)
(* The world outside the program is the configuration directory (files),   *)
(* the kernel's interfaces with their peer sets (ifaces) and the temporary *)
(* directory (temps).  The external commands (wg, wg-quick, ip) and the file system  *)
(* may fail: each operation takes an "oracle" record o that fixes the      *)
(* outcome of every external call the operation can make.                  *)
(***************************************************************************)
EXTENDS Integers, Sequences, FiniteSets, TLC

VARIABLES dirExists, files, ifaces, temps, keyCtr, calls, last, app

vars == <<dirExists, files, ifaces, temps, keyCtr, calls, last, app>>

(***************************************************************************)
(* Bounds of the model.                                                    *)
(***************************************************************************)
\* number of key pairs `wg genkey` hands out before the model stops adding peers
MaxKeys == 2
\* number of configuration files the model lets the directory hold
MaxFiles == 2
\* number of private keys `wg genkey` hands out to the application at the keyboard
MaxAppKeys == 1

\* Option::None of a string, of an integer (Some values are never negative)
\* and of a tuple; Ok(()) of a Result
None == "<none>"
NoInt == 0 - 1
Ok == "Ok"

(***************************************************************************)
(* str primitives of the Rust standard library used by the code.           *)
(***************************************************************************)
CharAt(s, i) == SubSeq(s, i, i)

\* char::is_whitespace, restricted to the ASCII white space
IsWhitespace(c) == c \in {" ", "\t", "\n", "\r"}

\* the least and the greatest element of a non-empty set of integers
MinOf(S) == CHOOSE k \in S : \A j \in S : k <= j
MaxOf(S) == CHOOSE k \in S : \A j \in S : j <= k

\* the index of the first character at or after i that is not white space
RECURSIVE FirstNonWs(_, _)
FirstNonWs(s, i) ==
    IF i > Len(s) THEN i
    ELSE IF IsWhitespace(CharAt(s, i)) THEN FirstNonWs(s, i + 1) ELSE i

\* the index of the last character at or before i that is not white space
RECURSIVE LastNonWs(_, _)
LastNonWs(s, i) ==
    IF i < 1 THEN i
    ELSE IF IsWhitespace(CharAt(s, i)) THEN LastNonWs(s, i - 1) ELSE i

\* str::trim
Trim(s) ==
    LET a == FirstNonWs(s, 1)
        b == LastNonWs(s, Len(s))
    IN  IF a > b THEN "" ELSE SubSeq(s, a, b)

\* str::is_empty
IsEmpty(s) == Len(s) = 0

StartsWith(s, p) == Len(s) >= Len(p) /\ SubSeq(s, 1, Len(p)) = p
EndsWith(s, p) == Len(s) >= Len(p) /\ SubSeq(s, Len(s) - Len(p) + 1, Len(s)) = p

\* (the scans below look at the string a block of 16 characters at a time)
\* the index of the first occurrence of the character c at or after i, 0 if none
RECURSIVE IndexFrom(_, _, _)
IndexFrom(s, c, i) ==
    IF i > Len(s) THEN 0
    ELSE LET hi == IF i + 15 < Len(s) THEN i + 15 ELSE Len(s)
             hits == {k \in i..hi : CharAt(s, k) = c}
         IN  IF hits # {} THEN MinOf(hits) ELSE IndexFrom(s, c, hi + 1)

\* the index of the last occurrence of the character c at or before i, 0 if none
RECURSIVE LastIndexFrom(_, _, _)
LastIndexFrom(s, c, i) ==
    IF i < 1 THEN 0
    ELSE LET lo == IF i - 15 > 1 THEN i - 15 ELSE 1
             hits == {k \in lo..i : CharAt(s, k) = c}
         IN  IF hits # {} THEN MaxOf(hits) ELSE LastIndexFrom(s, c, lo - 1)

\* str::split(char): n separators give n + 1 pieces, "" gives one empty piece
\* the pieces of s[lo..hi], a stretch of at most 64 characters
SplitChunk(s, c, lo, hi) ==
    LET Pieces(seps, n) ==
            LET \* the index of the k-th separator; lo - 1 before the first, hi + 1 after the last
                Nth(k) == IF k = 0 THEN lo - 1
                          ELSE IF k = n + 1 THEN hi + 1
                          ELSE CHOOSE i \in seps : Cardinality({j \in seps : j < i}) = k - 1
            IN  [k \in 1..(n + 1) |-> SubSeq(s, Nth(k - 1) + 1, Nth(k) - 1)]
        Cut(seps) == Pieces(seps, Cardinality(seps))
    IN  Cut({k \in lo..hi : CharAt(s, k) = c})

\* the last piece of the left half runs on into the first piece of the right half
MergePieces(L, R) ==
    IF Len(L) = 1 THEN <<L[1] \o R[1]>> \o Tail(R)
    ELSE SubSeq(L, 1, Len(L) - 1) \o <<L[Len(L)] \o R[1]>> \o Tail(R)

\* the pieces of s[lo..hi]
RECURSIVE SplitRange(_, _, _, _)
SplitRange(s, c, lo, hi) ==
    IF hi - lo < 64 THEN SplitChunk(s, c, lo, hi)
    ELSE MergePieces(SplitRange(s, c, lo, (lo + hi) \div 2),
                     SplitRange(s, c, (lo + hi) \div 2 + 1, hi))

Split(s, c) == SplitRange(s, c, 1, Len(s))

\* str::split_once(char): <<>> for None, or the parts before and after the first c
SplitOnce(s, c) ==
    LET i == IndexFrom(s, c, 1)
    IN  IF i = 0 THEN <<>>
        ELSE <<SubSeq(s, 1, i - 1), SubSeq(s, i + 1, Len(s))>>

\* str::lines: split on \n, a final empty piece is dropped, a trailing \r of a line too
Lines(s) ==
    LET DropLastEmpty(raw) ==
            IF raw[Len(raw)] = "" THEN SubSeq(raw, 1, Len(raw) - 1) ELSE raw
        DropCr(line) ==
            IF EndsWith(line, "\r") THEN SubSeq(line, 1, Len(line) - 1) ELSE line
        EachLine(cut) == [k \in 1..Len(cut) |-> DropCr(cut[k])]
    IN  EachLine(DropLastEmpty(Split(s, "\n")))

\* [T]::join
RECURSIVE JoinRange(_, _, _, _)
JoinRange(parts, sep, lo, hi) ==
    IF lo = hi THEN parts[lo]
    ELSE LET mid == (lo + hi) \div 2
         IN  JoinRange(parts, sep, lo, mid) \o sep \o JoinRange(parts, sep, mid + 1, hi)

Join(parts, sep) == IF Len(parts) = 0 THEN "" ELSE JoinRange(parts, sep, 1, Len(parts))

\* Iterator::filter on a sequence
FilterNonEmpty(parts) == LET NonEmpty(p) == p # "" IN SelectSeq(parts, NonEmpty)

UpperChars == <<"A","B","C","D","E","F","G","H","I","J","K","L","M",
                "N","O","P","Q","R","S","T","U","V","W","X","Y","Z">>
LowerChars == <<"a","b","c","d","e","f","g","h","i","j","k","l","m",
                "n","o","p","q","r","s","t","u","v","w","x","y","z">>

\* u8::to_ascii_lowercase on one character
ToAsciiLower(c) ==
    IF \E k \in 1..26 : UpperChars[k] = c
    THEN LowerChars[CHOOSE k \in 1..26 : UpperChars[k] = c]
    ELSE c

\* str::eq_ignore_ascii_case
EqIgnoreAsciiCase(a, b) ==
    /\ Len(a) = Len(b)
    /\ \A i \in 1..Len(a) : ToAsciiLower(CharAt(a, i)) = ToAsciiLower(CharAt(b, i))

Digits == <<"0","1","2","3","4","5","6","7","8","9">>
IsDigit(c) == \E k \in 1..10 : Digits[k] = c
DigitVal(c) == (CHOOSE k \in 1..10 : Digits[k] = c) - 1

AllDigits(s) == \A i \in 1..Len(s) : IsDigit(CharAt(s, i))

\* the value of a non-empty string of decimal digits, capped above cap
RECURSIVE DecValue(_, _, _, _)
DecValue(s, i, acc, cap) ==
    IF i > Len(s) THEN acc
    ELSE IF acc > cap THEN acc
    ELSE DecValue(s, i + 1, acc * 10 + DigitVal(CharAt(s, i)), cap)

U16Max == 65535
U8Max == 255

\* ParseU16 with the upper limit off by one
ParseU16_wide(s) ==
    LET body == IF StartsWith(s, "+") THEN SubSeq(s, 2, Len(s)) ELSE s
    IN  IF IsEmpty(body) \/ ~AllDigits(body) THEN NoInt
        ELSE LET v == DecValue(body, 1, 0, U16Max + 1)
             IN  IF v > U16Max + 1 THEN NoInt ELSE v

\* <u16 as FromStr>::from_str: an optional '+', then one or more decimal
\* digits (leading zeros allowed), the value at most 65535; NoInt otherwise
ParseU16(s) ==
    LET body == IF StartsWith(s, "+") THEN SubSeq(s, 2, Len(s)) ELSE s
    IN  IF IsEmpty(body) \/ ~AllDigits(body) THEN NoInt
        ELSE LET v == DecValue(body, 1, 0, U16Max)
             IN  IF v > U16Max THEN NoInt ELSE v

\* Display for unsigned integers: canonical decimal digits
RECURSIVE FmtInt(_)
FmtInt(n) == IF n < 10 THEN Digits[n + 1] ELSE FmtInt(n \div 10) \o Digits[(n % 10) + 1]

(***************************************************************************)
(* Paths (std::path::Path).                                                *)
(***************************************************************************)
CONFIG_DIR == "/etc/wireguard"
HomeDir == "/root"

\* Path::file_name: the last component; None for "", "/" and a final ".."
FileName(path) ==
    LET i == LastIndexFrom(path, "/", Len(path))
        n == SubSeq(path, i + 1, Len(path))
    IN  IF n = "" \/ n = ".." THEN None ELSE n

\* Path::file_stem
FileStem(path) ==
    LET n == FileName(path)
        i == LastIndexFrom(n, ".", Len(n))
    IN  IF n = None THEN None
        ELSE IF i <= 1 THEN n
        ELSE SubSeq(n, 1, i - 1)

\* Path::extension
Extension(path) ==
    LET n == FileName(path)
        i == LastIndexFrom(n, ".", Len(n))
    IN  IF n = None THEN None
        ELSE IF i <= 1 THEN None
        ELSE SubSeq(n, i + 1, Len(n))

\* Path::parent of an absolute path with a file name
ParentDir(path) ==
    LET i == LastIndexFrom(path, "/", Len(path))
    IN  IF i <= 1 THEN SubSeq(path, 1, i) ELSE SubSeq(path, 1, i - 1)

\* expand_path: trim, then shellexpand::tilde
expand_path(path) ==
    LET t == Trim(path)
    IN  IF t = "~" THEN HomeDir
        ELSE IF StartsWith(t, "~/") THEN HomeDir \o SubSeq(t, 2, Len(t))
        ELSE t

\* Path::new(CONFIG_DIR).join(format!("{name}.conf"))
ConfPath(name) == CONFIG_DIR \o "/" \o name \o ".conf"

(***************************************************************************)
(* Validation and formatting of the create operations.                     *)
(***************************************************************************)
ErrNameRequired == "Interface name is required"
ErrNameChars == "Interface name cannot contain spaces or '/'"
ErrMissingFields == "Missing required fields"
ErrListenPort == "Listen port must be a valid number"
ErrIo == "I/O error"

ErrAlreadyExists(name) == "Tunnel '" \o name \o "' already exists"

validate_interface_name(name) ==
    IF IsEmpty(name) THEN ErrNameRequired
    ELSE IF \E i \in 1..Len(name) :
                IsWhitespace(CharAt(name, i)) \/ CharAt(name, i) = "/"
         THEN ErrNameChars
    ELSE Ok

normalize_list(value) ==
    LET parts == Split(value, ",")
        trimmed == [k \in 1..Len(parts) |-> Trim(parts[k])]
    IN  Join(FilterNonEmpty(trimmed), ", ")

\* the text create_tunnel writes
ClientConfigText(private_key, address, dns, peer_public_key, allowed_ips, endpoint) ==
    "[Interface]\n"
    \o "PrivateKey = " \o private_key \o "\n"
    \o "Address = " \o address \o "\n"
    \o (IF ~IsEmpty(dns) THEN "DNS = " \o dns \o "\n" ELSE "")
    \o "\n"
    \o "[Peer]\n"
    \o "PublicKey = " \o peer_public_key \o "\n"
    \o "AllowedIPs = " \o allowed_ips \o "\n"
    \o "Endpoint = " \o endpoint \o "\n"

PostUpRule(egress_interface) ==
    "iptables -A FORWARD -i %i -j ACCEPT; iptables -A FORWARD -o %i -j ACCEPT; "
    \o "iptables -t nat -A POSTROUTING -o " \o egress_interface \o " -j MASQUERADE"

PostDownRule(egress_interface) ==
    "iptables -D FORWARD -i %i -j ACCEPT; iptables -D FORWARD -o %i -j ACCEPT; "
    \o "iptables -t nat -D POSTROUTING -o " \o egress_interface \o " -j MASQUERADE"

\* a server configuration with the port as the draft holds it, after the key
ServerConfigText_port_last(private_key, address, listen_port, egress_interface) ==
    "[Interface]\n"
    \o "Address = " \o address \o "\n"
    \o "SaveConfig = true\n"
    \o "PostUp = " \o PostUpRule(egress_interface) \o "\n"
    \o "PostDown = " \o PostDownRule(egress_interface) \o "\n"
    \o "PrivateKey = " \o private_key \o "\n"
    \o "[Peer]\n"
    \o "ListenPort = " \o FmtInt(listen_port) \o "\n"

\* the text create_server_tunnel writes
ServerConfigText(private_key, address, listen_port, egress_interface) ==
    "[Interface]\n"
    \o "Address = " \o address \o "\n"
    \o "SaveConfig = true\n"
    \o "PostUp = " \o PostUpRule(egress_interface) \o "\n"
    \o "PostDown = " \o PostDownRule(egress_interface) \o "\n"
    \o "ListenPort = " \o FmtInt(listen_port) \o "\n"
    \o "PrivateKey = " \o private_key \o "\n"

(***************************************************************************)
(* Readers of the INI-style configuration text.                            *)
(***************************************************************************)
IsCommentOrBlank(line) == IsEmpty(line) \/ StartsWith(line, "#") \/ StartsWith(line, ";")
IsSectionHeader(line) == StartsWith(line, "[") /\ EndsWith(line, "]")

\* the split(',').map(trim).filter(non-empty) of a list-valued key
ListValue(value) ==
    LET parts == Split(value, ",")
    IN  FilterNonEmpty([k \in 1..Len(parts) |-> Trim(parts[k])])

\* Vec::extend over the lists a loop collects, in order
RECURSIVE ConcatRange(_, _, _)
ConcatRange(lists, lo, hi) ==
    IF lo = hi THEN lists[lo]
    ELSE LET mid == (lo + hi) \div 2
         IN  ConcatRange(lists, lo, mid) \o ConcatRange(lists, mid + 1, hi)

(***************************************************************************)
(* The four readers below loop over content.lines() with the same first   *)
(* steps: the line is trimmed; a blank line or a comment is skipped; a     *)
(* section header sets the section flag and is skipped; a line read while  *)
(* the flag is off is skipped; a line without '=' is skipped.  The flag    *)
(* the loop holds when it reads line i is what the last header above line  *)
(* i set it to, and FALSE above the first header.                          *)
(***************************************************************************)
TrimLines(ls) == [k \in 1..Len(ls) |-> Trim(ls[k])]

\* the lines that set the section flag
HeaderLines(ts) == {j \in 1..Len(ts) : ~IsCommentOrBlank(ts[j]) /\ IsSectionHeader(ts[j])}

\* the section flag when the loop reads line i
InSectionAt(ts, headers, i, section) ==
    LET Last(above) == above # {} /\ EqIgnoreAsciiCase(ts[MaxOf(above)], section)
    IN  Last({j \in headers : j < i})

\* the split_once('=') of line i if the loop gets to it, <<>> if it skips the line
PairAt(ts, headers, i, section) ==
    IF IsCommentOrBlank(ts[i]) \/ i \in headers THEN <<>>
    ELSE IF ~InSectionAt(ts, headers, i, section) THEN <<>>
    ELSE SplitOnce(ts[i], "=")

\* the loop shared by parse_interface_addresses and parse_peer_allowed_ips:
\* the list values of `key` in the sections named `section`, in file order
SectionList(ls, section, key) ==
    LET ValsOf(kv) ==
            IF kv # <<>> /\ EqIgnoreAsciiCase(Trim(kv[1]), key) THEN ListValue(kv[2])
            ELSE <<>>
        Scan(ts, headers) ==
            IF Len(ts) = 0 THEN <<>>
            ELSE ConcatRange([i \in 1..Len(ts) |-> ValsOf(PairAt(ts, headers, i, section))],
                             1, Len(ts))
        Trimmed(ts) == Scan(ts, HeaderLines(ts))
    IN  Trimmed(TrimLines(ls))

parse_interface_addresses(content) == SectionList(Lines(content), "[Interface]", "Address")

parse_peer_allowed_ips(content) == SectionList(Lines(content), "[Peer]", "AllowedIPs")

\* parse_interface_value with the last matching line winning
parse_interface_value_last(content, key) ==
    LET Hit(kv) == kv # <<>> /\ EqIgnoreAsciiCase(Trim(kv[1]), key)
        Final(ts, hits) ==
            IF hits = {} THEN None ELSE Trim(SplitOnce(ts[MaxOf(hits)], "=")[2])
        Scan(ts, headers) ==
            Final(ts, {i \in 1..Len(ts) : Hit(PairAt(ts, headers, i, "[Interface]"))})
        Trimmed(ts) == Scan(ts, HeaderLines(ts))
    IN  Trimmed(TrimLines(Lines(content)))

\* is_server_config with the server keys looked for in every section
is_server_config_any_section(content) ==
    LET ServerKey(key) ==
            \/ EqIgnoreAsciiCase(key, "PostUp")
            \/ EqIgnoreAsciiCase(key, "PostDown")
            \/ EqIgnoreAsciiCase(key, "SaveConfig")
        Hit(kv) == kv # <<>> /\ ServerKey(Trim(kv[1]))
        Scan(ts, headers) ==
            \E i \in 1..Len(ts) :
                ~IsCommentOrBlank(ts[i]) /\ i \notin headers /\ Hit(SplitOnce(ts[i], "="))
        Trimmed(ts) == Scan(ts, HeaderLines(ts))
    IN  Trimmed(TrimLines(Lines(content)))

\* the first line of the Interface section whose key is `key` returns its value
parse_interface_value(content, key) ==
    LET Hit(kv) == kv # <<>> /\ EqIgnoreAsciiCase(Trim(kv[1]), key)
        First(ts, hits) ==
            IF hits = {} THEN None ELSE Trim(SplitOnce(ts[MinOf(hits)], "=")[2])
        Scan(ts, headers) ==
            First(ts, {i \in 1..Len(ts) : Hit(PairAt(ts, headers, i, "[Interface]"))})
        Trimmed(ts) == Scan(ts, HeaderLines(ts))
    IN  Trimmed(TrimLines(Lines(content)))

\* the first line of the Interface section with a server key returns true
is_server_config(content) ==
    LET ServerKey(key) ==
            \/ EqIgnoreAsciiCase(key, "PostUp")
            \/ EqIgnoreAsciiCase(key, "PostDown")
            \/ EqIgnoreAsciiCase(key, "SaveConfig")
        Hit(kv) == kv # <<>> /\ ServerKey(Trim(kv[1]))
        Scan(ts, headers) ==
            \E i \in 1..Len(ts) : Hit(PairAt(ts, headers, i, "[Interface]"))
        Trimmed(ts) == Scan(ts, HeaderLines(ts))
    IN  Trimmed(TrimLines(Lines(content)))

\* is_full_tunnel_config on the text of the file: any AllowedIPs line, whatever its section
FullTunnelText(content) ==
    LET AnyFull(vs) == \E k \in 1..Len(vs) : Trim(vs[k]) \in {"0.0.0.0/0", "::/0"}
        OnPair(kv) ==
            /\ kv # <<>>
            /\ EqIgnoreAsciiCase(Trim(kv[1]), "AllowedIPs")
            /\ AnyFull(Split(kv[2], ","))
        OnLine(line) ==
            /\ ~StartsWith(line, "#")
            /\ ~StartsWith(line, ";")
            /\ OnPair(SplitOnce(line, "="))
        AnyLine(ls) == \E i \in 1..Len(ls) : OnLine(Trim(ls[i]))
    IN  AnyLine(Lines(content))

(***************************************************************************)
(* IPv4 addresses: a tuple of four octets, <<>> for None.                  *)
(***************************************************************************)
\* one octet of <Ipv4Addr as FromStr>: 1 to 3 digits, no leading zero, at most 255
ParseOctet(s) ==
    IF Len(s) = 0 \/ Len(s) > 3 \/ ~AllDigits(s) THEN NoInt
    ELSE IF Len(s) > 1 /\ CharAt(s, 1) = "0" THEN NoInt
    ELSE LET v == DecValue(s, 1, 0, U8Max) IN IF v > U8Max THEN NoInt ELSE v

ParseIpv4(s) ==
    LET parts == Split(s, ".")
        octs == [k \in 1..Len(parts) |-> ParseOctet(parts[k])]
    IN  IF Len(parts) # 4 THEN <<>>
        ELSE IF \E k \in 1..4 : octs[k] = NoInt THEN <<>>
        ELSE octs

\* parse_ipv4_address: the host part of "a.b.c.d/len"
parse_ipv4_address(value) ==
    LET v == Trim(value)
        sp == SplitOnce(v, "/")
    IN  ParseIpv4(IF sp = <<>> THEN v ELSE sp[1])

\* Display for Ipv4Addr
FmtIpv4(ip) == FmtInt(ip[1]) \o "." \o FmtInt(ip[2]) \o "." \o FmtInt(ip[3]) \o "." \o FmtInt(ip[4])

LastStep == 253
U8Mod == 256

\* Candidate with an addition that does not wrap
Candidate_no_wrap(d, step) == d + step

\* the candidate last octet at a step: d.wrapping_add(step)
Candidate(d, step) == (d + step) % U8Mod

\* PeerStepOk that passes over no octet
PeerStepOk_any_octet(base, used, step) ==
    <<base[1], base[2], base[3], Candidate(base[4], step)>> \notin used

PeerStepOk(base, used, step) ==
    /\ Candidate(base[4], step) # 0
    /\ Candidate(base[4], step) # U8Max
    /\ <<base[1], base[2], base[3], Candidate(base[4], step)>> \notin used

\* next_peer_ipv4 that returns the lowest free host of the /24
next_peer_ipv4_lowest(base, used) ==
    LET free == {c \in 1..(U8Max - 1) : <<base[1], base[2], base[3], c>> \notin used}
    IN  IF free = {} THEN <<>> ELSE <<base[1], base[2], base[3], MinOf(free)>>

next_peer_ipv4(base, used) ==
    IF \E step \in 1..LastStep : PeerStepOk(base, used, step)
    THEN LET first == CHOOSE step \in 1..LastStep :
                          /\ PeerStepOk(base, used, step)
                          /\ \A t \in 1..(step - 1) : ~PeerStepOk(base, used, t)
         IN  <<base[1], base[2], base[3], Candidate(base[4], first)>>
    ELSE <<>>

(***************************************************************************)
(* The world and the external calls.                                       *)
(*                                                                         *)
(* A world w is a record: dir (the configuration directory exists), files  *)
(* (tunnel name -> text of <name>.conf), ifaces (name of a running         *)
(* interface -> its set of peer public keys), temps (name of a file in the *)
(* temporary directory -> text), keyCtr (keys handed out so far) and calls *)
(* (the external calls of the operation in progress, in order).            *)
(*                                                                         *)
(* An oracle o is a record: failAt names the one external call that fails  *)
(* if the operation gets to it (None: no call fails); rmTemp1 and rmTemp2  *)
(* say whether the removal of each temporary file works.                   *)
(***************************************************************************)
Put(f, k, v) == [x \in (DOMAIN f) \cup {k} |-> IF x = k THEN v ELSE f[x]]
Del(f, k) == [x \in (DOMAIN f) \ {k} |-> f[x]]
NoEntries == [x \in {} |-> ""]

Log(w, call, target, ok) ==
    [w EXCEPT !.calls = Append(@, [call |-> call, target |-> target, ok |-> ok])]

Called(cs, call) == \E i \in 1..Len(cs) : cs[i].call = call
CalledOk(cs, call) == \E i \in 1..Len(cs) : cs[i].call = call /\ cs[i].ok

\* the public keys of the [Peer] sections of a configuration, as `wg` reads them
ConfigPeerKeys(content) ==
    LET Elements(ks) == {ks[k] : k \in 1..Len(ks)}
    IN  Elements(SectionList(Lines(content), "[Peer]", "PublicKey"))

\* the keys of the Interface section that only wg-quick understands
QuickOnlyKeys ==
    {"address", "mtu", "dns", "table", "preup", "predown", "postup", "postdown", "saveconfig"}

LowerStr(s) == Join([k \in 1..Len(s) |-> ToAsciiLower(CharAt(s, k))], "")

\* the output of `wg-quick strip`: the configuration without the wg-quick keys
StripText(content) ==
    LET KeepPair(kv) == kv = <<>> \/ LowerStr(Trim(kv[1])) \notin QuickOnlyKeys
        Keep(line) == KeepPair(SplitOnce(Trim(line), "="))
        Printed(kept) == Join([k \in 1..Len(kept) |-> kept[k] \o "\n"], "")
    IN  Printed(SelectSeq(Lines(content), Keep))

\* fs::write of a file of the configuration directory.  It creates or
\* truncates the file and then writes: a failure leaves the directory as it
\* was (the open failed) or leaves an empty file (the write failed).
FsWriteConf(w, name, content, o) ==
    IF ~w.dir \/ o.failAt = "write_open"
    THEN [w |-> Log(w, "write", name, FALSE), res |-> ErrIo]
    ELSE IF o.failAt = "write_data"
    THEN [w |-> Log([w EXCEPT !.files = Put(@, name, "")], "write", name, FALSE), res |-> ErrIo]
    ELSE [w |-> Log([w EXCEPT !.files = Put(@, name, content)], "write", name, TRUE), res |-> Ok]

\* fs::write of a file of the temporary directory
FsWriteTemp(w, tmp, content, o, step) ==
    IF o.failAt = step \o "_open"
    THEN [w |-> Log(w, step, tmp, FALSE), res |-> ErrIo]
    ELSE IF o.failAt = step \o "_data"
    THEN [w |-> Log([w EXCEPT !.temps = Put(@, tmp, "")], step, tmp, FALSE), res |-> ErrIo]
    ELSE [w |-> Log([w EXCEPT !.temps = Put(@, tmp, content)], step, tmp, TRUE), res |-> Ok]

\* fs::create_dir_all(CONFIG_DIR): nothing to do, and no failure, if it exists
FsCreateDirAll(w, o) ==
    IF w.dir THEN [w |-> w, res |-> Ok]
    ELSE IF o.failAt = "mkdir" THEN [w |-> Log(w, "mkdir", CONFIG_DIR, FALSE), res |-> ErrIo]
    ELSE [w |-> Log([w EXCEPT !.dir = TRUE], "mkdir", CONFIG_DIR, TRUE), res |-> Ok]

is_interface_active(name, w) == name \in DOMAIN w.ifaces

\* wg_quick(action, name).  `wg-quick up` needs the configuration file and no
\* interface of that name, `wg-quick down` the file and the interface; either
\* may fail for reasons of its own, and then changes nothing.
wg_quick(action, name, w, o) ==
    LET call == "wg-quick " \o action
        can == IF action = "up"
               THEN name \in DOMAIN w.files /\ name \notin DOMAIN w.ifaces
               ELSE name \in DOMAIN w.files /\ name \in DOMAIN w.ifaces
        ok == can /\ o.failAt # call
        w1 == IF ~ok THEN w
              ELSE IF action = "up"
                   THEN [w EXCEPT !.ifaces = Put(@, name, ConfigPeerKeys(w.files[name]))]
                   ELSE [w EXCEPT !.ifaces = Del(@, name)]
    IN  [w |-> Log(w1, call, name, ok),
         res |-> IF ok THEN Ok ELSE call \o " failed"]

TempConf(name) == "wg-tui-" \o name \o ".conf"
TempStripped(name) == "wg-tui-" \o name \o ".stripped"

\* the end of the live resync with the stripped file left where it is
RemoveTemps_conf_only(w, name, o) ==
    LET w1 == IF o.rmTemp1 THEN [w EXCEPT !.temps = Del(@, TempConf(name))] ELSE w
    IN  Log(w1, "remove_temp", TempConf(name), o.rmTemp1)

\* the two best-effort fs::remove_file calls at the end of the live resync
RemoveTemps(w, name, o) ==
    LET w1 == IF o.rmTemp1 THEN [w EXCEPT !.temps = Del(@, TempConf(name))] ELSE w
        w2 == IF o.rmTemp2 THEN [w1 EXCEPT !.temps = Del(@, TempStripped(name))] ELSE w1
    IN  Log(Log(w2, "remove_temp", TempConf(name), o.rmTemp1),
            "remove_temp", TempStripped(name), o.rmTemp2)

\* the live resync with the running interface reconciled against the file
\* that still holds the wg-quick keys
sync_interface_with_content_unstripped(name, content, w, o) ==
    LET \* the file `wg syncconf` is given: the one with the full text
        given == TempConf(name)
        \* the running interface takes the peers of the file it is given
        Synced(w3) ==
            [w3 EXCEPT !.ifaces = Put(@, name, ConfigPeerKeys(w3.temps[given]))]
        \* wg syncconf <name> <stripped file>, then the removal of the two files
        SyncConf(r3) ==
            IF r3.res # Ok THEN r3
            ELSE IF name \in DOMAIN r3.w.ifaces /\ o.failAt # "syncconf"
            THEN [w |-> RemoveTemps(Log(Synced(r3.w), "syncconf", given, TRUE), name, o),
                  res |-> Ok]
            ELSE [w |-> Log(r3.w, "syncconf", given, FALSE), res |-> "wg syncconf failed"]
        \* wg-quick strip <temp file>, its output written to the stripped file
        Strip(r1) ==
            IF r1.res # Ok THEN r1
            ELSE IF o.failAt = "strip"
            THEN [w |-> Log(r1.w, "strip", TempConf(name), FALSE),
                  res |-> "wg-quick strip failed"]
            ELSE SyncConf(FsWriteTemp(Log(r1.w, "strip", TempConf(name), TRUE),
                                      TempStripped(name),
                                      StripText(r1.w.temps[TempConf(name)]),
                                      o, "temp_stripped"))
    IN  Strip(FsWriteTemp(w, TempConf(name), content, o, "temp_conf"))

\* sync_interface_with_content, step by step; each step is given the result
\* of the step before it and returns at once if that one failed.  The log
\* keeps the file each command was given.
sync_interface_with_content(name, content, w, o) ==
    LET \* the file `wg syncconf` is given: the output of the strip
        given == TempStripped(name)
        \* the running interface takes the peers of the file it is given
        Synced(w3) ==
            [w3 EXCEPT !.ifaces = Put(@, name, ConfigPeerKeys(w3.temps[given]))]
        \* wg syncconf <name> <stripped file>, then the removal of the two files
        SyncConf(r3) ==
            IF r3.res # Ok THEN r3
            ELSE IF name \in DOMAIN r3.w.ifaces /\ o.failAt # "syncconf"
            THEN [w |-> RemoveTemps(Log(Synced(r3.w), "syncconf", given, TRUE), name, o),
                  res |-> Ok]
            ELSE [w |-> Log(r3.w, "syncconf", given, FALSE), res |-> "wg syncconf failed"]
        \* wg-quick strip <temp file>, its output written to the stripped file
        Strip(r1) ==
            IF r1.res # Ok THEN r1
            ELSE IF o.failAt = "strip"
            THEN [w |-> Log(r1.w, "strip", TempConf(name), FALSE),
                  res |-> "wg-quick strip failed"]
            ELSE SyncConf(FsWriteTemp(Log(r1.w, "strip", TempConf(name), TRUE),
                                      TempStripped(name),
                                      StripText(r1.w.temps[TempConf(name)]),
                                      o, "temp_stripped"))
    IN  Strip(FsWriteTemp(w, TempConf(name), content, o, "temp_conf"))

(***************************************************************************)
(* Keys (wg genkey, wg pubkey).                                            *)
(***************************************************************************)
\* the k-th private key `wg genkey` prints, and the public key `wg pubkey` derives
PrivKey(k) == "sk" \o FmtInt(k) \o "="
PubKeyOf(private_key) == "pk-" \o private_key

generate_private_key(w, o) ==
    IF o.failAt = "genkey"
    THEN [w |-> Log(w, "genkey", "", FALSE), res |-> "wg genkey failed", val |-> None]
    ELSE IF o.failAt = "genkey_empty"
    THEN [w |-> Log(w, "genkey", "", TRUE), res |-> "wg genkey returned an empty key",
          val |-> None]
    ELSE [w |-> Log([w EXCEPT !.keyCtr = @ + 1], "genkey", "", TRUE), res |-> Ok,
          val |-> PrivKey(w.keyCtr + 1)]

\* step tells the two derivations of add_server_peer apart for the oracle
derive_public_key(private_key, w, o, step) ==
    IF o.failAt = step
    THEN [w |-> Log(w, step, private_key, FALSE), res |-> "wg pubkey failed", val |-> None]
    ELSE IF o.failAt = step \o "_empty"
    THEN [w |-> Log(w, step, private_key, TRUE), res |-> "wg pubkey returned an empty key",
          val |-> None]
    ELSE [w |-> Log(w, step, private_key, TRUE), res |-> Ok, val |-> PubKeyOf(private_key)]

generate_keypair(w, o) ==
    LET Pair(private_key, r2) ==
            IF r2.res # Ok THEN r2
            ELSE [w |-> r2.w, res |-> Ok, val |-> <<private_key, r2.val>>]
        Derive(r1) ==
            IF r1.res # Ok THEN r1
            ELSE Pair(r1.val, derive_public_key(r1.val, r1.w, o, "pubkey_peer"))
    IN  Derive(generate_private_key(w, o))

(***************************************************************************)
(* The lifecycle operations of wireguard.rs.  Each returns the world it    *)
(* leaves, its result res (Ok or the error message) and, where the Rust    *)
(* function returns one, the value val.                                    *)
(***************************************************************************)
\* the files outside the configuration directory that an import can name
SourceFiles ==
    [p \in {"/root/wg0.conf", "/tmp/my vpn.conf", "/tmp/notes.txt"} |->
        IF p = "/root/wg0.conf"
        THEN ClientConfigText("key-r=", "10.9.0.2/32", "", "ppk0=", "10.9.0.0/24", "r.example:51820")
        ELSE IF p = "/tmp/notes.txt" THEN "notes\n"
        ELSE ClientConfigText("key-t=", "10.8.0.2/32", "", "peer-t=", "0.0.0.0/0", "t.example:51820")]

InConfigDir(path, w) ==
    /\ w.dir
    /\ ParentDir(path) = CONFIG_DIR
    /\ Extension(path) = "conf"
    /\ FileStem(path) \in DOMAIN w.files

\* Path::exists
PathExists(path, w) == path \in DOMAIN SourceFiles \/ InConfigDir(path, w)

ReadPath(path, w) ==
    IF path \in DOMAIN SourceFiles THEN SourceFiles[path] ELSE w.files[FileStem(path)]

\* fs::remove_file(CONFIG_DIR/<name>.conf)
FsRemoveConf(w, name, o) ==
    IF w.dir /\ name \in DOMAIN w.files /\ o.failAt # "remove_file"
    THEN [w |-> Log([w EXCEPT !.files = Del(@, name)], "remove_file", name, TRUE), res |-> Ok]
    ELSE [w |-> Log(w, "remove_file", name, FALSE), res |-> ErrIo]

\* fs::copy(source, CONFIG_DIR/<name>.conf): a failure leaves the directory as
\* it was (the open failed) or leaves an empty destination (the copy failed)
FsCopyConf(w, source, name, o) ==
    IF ~w.dir \/ o.failAt = "copy_open"
    THEN [w |-> Log(w, "copy", name, FALSE), res |-> ErrIo]
    ELSE IF o.failAt = "copy_data"
    THEN [w |-> Log([w EXCEPT !.files = Put(@, name, "")], "copy", name, FALSE), res |-> ErrIo]
    ELSE [w |-> Log([w EXCEPT !.files = Put(@, name, ReadPath(source, w))], "copy", name, TRUE),
          res |-> Ok]

\* delete_tunnel that goes on to the removal whatever `wg-quick down` returned
delete_tunnel_ignoring_down(name, is_active, w, o) ==
    LET Remove(r1) == FsRemoveConf(r1.w, name, o)
    IN  Remove(IF is_active THEN wg_quick("down", name, w, o) ELSE [w |-> w, res |-> Ok])

delete_tunnel(name, is_active, w, o) ==
    LET Remove(r1) == IF r1.res # Ok THEN r1 ELSE FsRemoveConf(r1.w, name, o)
    IN  Remove(IF is_active THEN wg_quick("down", name, w, o) ELSE [w |-> w, res |-> Ok])

\* import_tunnel without the check that the destination exists
import_tunnel_overwrite(source_path, w, o) ==
    LET Copied(name, r) ==
            IF r.res # Ok THEN [w |-> r.w, res |-> r.res, val |-> None]
            ELSE [w |-> r.w, res |-> Ok, val |-> name]
        Named(source, name) ==
            IF name = None
            THEN [w |-> w, res |-> "Could not determine tunnel name from file", val |-> None]
            ELSE Copied(name, FsCopyConf(w, source, name, o))
        From(source) ==
            IF ~PathExists(source, w)
            THEN [w |-> w, res |-> "Source file does not exist", val |-> None]
            ELSE IF Extension(source) # "conf"
            THEN [w |-> w, res |-> "File must have .conf extension", val |-> None]
            ELSE Named(source, FileStem(source))
    IN  From(expand_path(source_path))

\* import_tunnel without the check of the extension of the source
import_tunnel_any_extension(source_path, w, o) ==
    LET Copied(name, r) ==
            IF r.res # Ok THEN [w |-> r.w, res |-> r.res, val |-> None]
            ELSE [w |-> r.w, res |-> Ok, val |-> name]
        Named(source, name) ==
            IF name = None
            THEN [w |-> w, res |-> "Could not determine tunnel name from file", val |-> None]
            ELSE IF w.dir /\ name \in DOMAIN w.files
            THEN [w |-> w, res |-> ErrAlreadyExists(name), val |-> None]
            ELSE Copied(name, FsCopyConf(w, source, name, o))
        From(source) ==
            IF ~PathExists(source, w)
            THEN [w |-> w, res |-> "Source file does not exist", val |-> None]
            ELSE Named(source, FileStem(source))
    IN  From(expand_path(source_path))

import_tunnel(source_path, w, o) ==
    LET \* fs::copy(source, dest) and the name returned
        Copied(name, r) ==
            IF r.res # Ok THEN [w |-> r.w, res |-> r.res, val |-> None]
            ELSE [w |-> r.w, res |-> Ok, val |-> name]
        \* the checks on the name taken from the file stem
        Named(source, name) ==
            IF name = None
            THEN [w |-> w, res |-> "Could not determine tunnel name from file", val |-> None]
            ELSE IF w.dir /\ name \in DOMAIN w.files
            THEN [w |-> w, res |-> ErrAlreadyExists(name), val |-> None]
            ELSE Copied(name, FsCopyConf(w, source, name, o))
        \* the checks on the expanded source path
        From(source) ==
            IF ~PathExists(source, w)
            THEN [w |-> w, res |-> "Source file does not exist", val |-> None]
            ELSE IF Extension(source) # "conf"
            THEN [w |-> w, res |-> "File must have .conf extension", val |-> None]
            ELSE Named(source, FileStem(source))
    IN  From(expand_path(source_path))

\* create_tunnel that looks for the existing file before it validates the fields
create_tunnel_collision_first(draft, w, o) ==
    LET name == Trim(draft.name)
        private_key == Trim(draft.private_key)
        address == Trim(draft.address)
        peer_public_key == Trim(draft.peer_public_key)
        allowed_ips == normalize_list(draft.allowed_ips)
        endpoint == Trim(draft.endpoint)
        r1 == FsCreateDirAll(w, o)
        dns == normalize_list(draft.dns)
        content == ClientConfigText(private_key, address, dns, peer_public_key,
                                    allowed_ips, endpoint)
    IN  IF validate_interface_name(name) # Ok
        THEN [w |-> w, res |-> validate_interface_name(name)]
        ELSE IF r1.res # Ok THEN r1
        ELSE IF name \in DOMAIN r1.w.files
        THEN [w |-> r1.w, res |-> ErrAlreadyExists(name)]
        ELSE IF \/ IsEmpty(private_key)
                \/ IsEmpty(address)
                \/ IsEmpty(peer_public_key)
                \/ IsEmpty(allowed_ips)
                \/ IsEmpty(endpoint)
        THEN [w |-> r1.w, res |-> ErrMissingFields]
        ELSE FsWriteConf(r1.w, name, content, o)

create_tunnel(draft, w, o) ==
    LET name == Trim(draft.name)
        private_key == Trim(draft.private_key)
        address == Trim(draft.address)
        peer_public_key == Trim(draft.peer_public_key)
        allowed_ips == normalize_list(draft.allowed_ips)
        endpoint == Trim(draft.endpoint)
        r1 == FsCreateDirAll(w, o)
        dns == normalize_list(draft.dns)
        content == ClientConfigText(private_key, address, dns, peer_public_key,
                                    allowed_ips, endpoint)
    IN  IF validate_interface_name(name) # Ok
        THEN [w |-> w, res |-> validate_interface_name(name)]
        ELSE IF \/ IsEmpty(private_key)
                \/ IsEmpty(address)
                \/ IsEmpty(peer_public_key)
                \/ IsEmpty(allowed_ips)
                \/ IsEmpty(endpoint)
        THEN [w |-> w, res |-> ErrMissingFields]
        ELSE IF r1.res # Ok THEN r1
        ELSE IF name \in DOMAIN r1.w.files
        THEN [w |-> r1.w, res |-> ErrAlreadyExists(name)]
        ELSE FsWriteConf(r1.w, name, content, o)

\* create_server_tunnel without the check that the file exists
create_server_tunnel_overwrite(draft, w, o) ==
    LET name == Trim(draft.name)
        private_key == Trim(draft.private_key)
        address == Trim(draft.address)
        listen_port_str == Trim(draft.listen_port)
        egress_interface == Trim(draft.egress_interface)
        listen_port == ParseU16(listen_port_str)
        r1 == FsCreateDirAll(w, o)
        content == ServerConfigText(private_key, address, listen_port, egress_interface)
    IN  IF validate_interface_name(name) # Ok
        THEN [w |-> w, res |-> validate_interface_name(name)]
        ELSE IF \/ IsEmpty(private_key)
                \/ IsEmpty(address)
                \/ IsEmpty(listen_port_str)
                \/ IsEmpty(egress_interface)
        THEN [w |-> w, res |-> ErrMissingFields]
        ELSE IF listen_port = NoInt THEN [w |-> w, res |-> ErrListenPort]
        ELSE IF r1.res # Ok THEN r1
        ELSE FsWriteConf(r1.w, name, content, o)

create_server_tunnel(draft, w, o) ==
    LET name == Trim(draft.name)
        private_key == Trim(draft.private_key)
        address == Trim(draft.address)
        listen_port_str == Trim(draft.listen_port)
        egress_interface == Trim(draft.egress_interface)
        listen_port == ParseU16(listen_port_str)
        r1 == FsCreateDirAll(w, o)
        content == ServerConfigText(private_key, address, listen_port, egress_interface)
    IN  IF validate_interface_name(name) # Ok
        THEN [w |-> w, res |-> validate_interface_name(name)]
        ELSE IF \/ IsEmpty(private_key)
                \/ IsEmpty(address)
                \/ IsEmpty(listen_port_str)
                \/ IsEmpty(egress_interface)
        THEN [w |-> w, res |-> ErrMissingFields]
        ELSE IF listen_port = NoInt THEN [w |-> w, res |-> ErrListenPort]
        ELSE IF r1.res # Ok THEN r1
        ELSE IF name \in DOMAIN r1.w.files
        THEN [w |-> r1.w, res |-> ErrAlreadyExists(name)]
        ELSE FsWriteConf(r1.w, name, content, o)

\* the first element of a sequence of address strings that parses as IPv4, None if none
RECURSIVE FirstIpv4(_)
FirstIpv4(addrs) ==
    IF Len(addrs) = 0 THEN None
    ELSE IF parse_ipv4_address(addrs[1]) # <<>> THEN addrs[1]
    ELSE FirstIpv4(Tail(addrs))

\* UsedAddresses that forgets the peers of the configuration
UsedAddresses_base_only(base_ip, content) == {base_ip}

\* the set `used` of add_server_peer: the server's address and the IPv4 hosts of the peers
UsedAddresses(base_ip, content) ==
    LET Hosts(allowed) == {parse_ipv4_address(allowed[k]) : k \in 1..Len(allowed)} \ {<<>>}
    IN  {base_ip} \cup Hosts(parse_peer_allowed_ips(content))

\* the [Peer] block appended behind a line feed of its own in every case
AppendPeerBlock_always_newline(content, peer_public_key, peer_address) ==
    content \o "\n"
    \o "\n"
    \o "[Peer]\n"
    \o "PublicKey = " \o peer_public_key \o "\n"
    \o "AllowedIPs = " \o peer_address \o "\n"

\* the text add_server_peer appends the [Peer] block to
AppendPeerBlock(content, peer_public_key, peer_address) ==
    (IF ~EndsWith(content, "\n") THEN content \o "\n" ELSE content)
    \o "\n"
    \o "[Peer]\n"
    \o "PublicKey = " \o peer_public_key \o "\n"
    \o "AllowedIPs = " \o peer_address \o "\n"

ENDPOINT_PLACEHOLDER == "__ENDPOINT__"
DNS_BLOCK_PLACEHOLDER == "__DNS_BLOCK__"

ClientTemplate(peer_private_key, peer_address, server_public_key) ==
    "[Interface]\nPrivateKey = " \o peer_private_key
    \o "\nAddress = " \o peer_address
    \o "\n" \o DNS_BLOCK_PLACEHOLDER
    \o "\n[Peer]\nPublicKey = " \o server_public_key
    \o "\nAllowedIPs = 0.0.0.0/0, ::/0\nEndpoint = " \o ENDPOINT_PLACEHOLDER \o "\n"

\* add_server_peer up to the allocation of the peer address: it reads the
\* configuration and calls nothing that can fail from outside
PeerPlan(name, w) ==
    LET Err(msg) == [res |-> msg]
        Allocated(content, private_key, listen_port, peer_ip) ==
            IF peer_ip = <<>> THEN Err("No available peer address in the server /24")
            ELSE [res |-> Ok, content |-> content, private_key |-> private_key,
                  listen_port |-> listen_port, peer_ip |-> peer_ip]
        WithPort(content, base_ip, private_key, listen_port) ==
            IF listen_port = NoInt THEN Err(ErrListenPort)
            ELSE Allocated(content, private_key, listen_port,
                           next_peer_ipv4(base_ip, UsedAddresses(base_ip, content)))
        WithPortStr(content, base_ip, private_key, listen_port_str) ==
            IF listen_port_str = None THEN Err("Server config missing ListenPort")
            ELSE WithPort(content, base_ip, private_key, ParseU16(listen_port_str))
        WithKey(content, base_ip, private_key) ==
            IF private_key = None THEN Err("Server config missing PrivateKey")
            ELSE WithPortStr(content, base_ip, private_key,
                             parse_interface_value(content, "ListenPort"))
        WithBase(content, base_ip) ==
            IF base_ip = <<>> THEN Err("Server IPv4 address is invalid")
            ELSE WithKey(content, base_ip, parse_interface_value(content, "PrivateKey"))
        WithAddress(content, address) ==
            IF address = None THEN Err("Server config has no IPv4 address")
            ELSE WithBase(content, parse_ipv4_address(address))
        WithContent(content) ==
            IF ~is_server_config(content) THEN Err("Selected tunnel is not a server config")
            ELSE WithAddress(content, FirstIpv4(parse_interface_addresses(content)))
    IN  IF ~(w.dir /\ name \in DOMAIN w.files)
        THEN Err("Could not read config for tunnel '" \o name \o "'")
        ELSE WithContent(w.files[name])

\* PeerCommit that writes the file before it resyncs the interface
PeerCommit_write_first(plan, name, w, o) ==
    LET peer_address == FmtIpv4(plan.peer_ip) \o "/32"
        Err(w1, msg) == [w |-> w1, res |-> msg, val |-> None]
        Synced(rk, rs, ry) ==
            IF ry.res # Ok THEN Err(ry.w, ry.res)
            ELSE [w |-> ry.w, res |-> Ok,
                  val |-> [client_config_template |->
                               ClientTemplate(rk.val[1], peer_address, rs.val),
                           suggested_filename |->
                               name \o "-peer-" \o FmtIpv4(plan.peer_ip) \o ".conf",
                           listen_port |-> plan.listen_port]]
        Written(rk, rs, new_content, rw) ==
            IF rw.res # Ok THEN Err(rw.w, rw.res)
            ELSE Synced(rk, rs, IF is_interface_active(name, rw.w)
                                THEN sync_interface_with_content(name, new_content, rw.w, o)
                                ELSE [w |-> rw.w, res |-> Ok])
        Appended(rk, rs, new_content) ==
            Written(rk, rs, new_content, FsWriteConf(rs.w, name, new_content, o))
        ServerKey(rk, rs) ==
            IF rs.res # Ok THEN Err(rs.w, rs.res)
            ELSE Appended(rk, rs, AppendPeerBlock(plan.content, rk.val[2], peer_address))
        PeerKeys(rk) ==
            IF rk.res # Ok THEN Err(rk.w, rk.res)
            ELSE ServerKey(rk, derive_public_key(plan.private_key, rk.w, o, "pubkey_server"))
    IN  IF plan.res # Ok THEN Err(w, plan.res)
        ELSE PeerKeys(generate_keypair(w, o))

\* PeerCommit that generates the key pair of the peer before it looks at the plan
PeerCommit_keys_first(plan, name, w, o) ==
    LET peer_address == FmtIpv4(plan.peer_ip) \o "/32"
        Err(w1, msg) == [w |-> w1, res |-> msg, val |-> None]
        Written(rk, rs, rw) ==
            IF rw.res # Ok THEN Err(rw.w, rw.res)
            ELSE [w |-> rw.w, res |-> Ok,
                  val |-> [client_config_template |->
                               ClientTemplate(rk.val[1], peer_address, rs.val),
                           suggested_filename |->
                               name \o "-peer-" \o FmtIpv4(plan.peer_ip) \o ".conf",
                           listen_port |-> plan.listen_port]]
        Synced(rk, rs, new_content, ry) ==
            IF ry.res # Ok THEN Err(ry.w, ry.res)
            ELSE Written(rk, rs, FsWriteConf(ry.w, name, new_content, o))
        Appended(rk, rs, new_content) ==
            Synced(rk, rs, new_content,
                   IF is_interface_active(name, rs.w)
                   THEN sync_interface_with_content(name, new_content, rs.w, o)
                   ELSE [w |-> rs.w, res |-> Ok])
        ServerKey(rk, rs) ==
            IF rs.res # Ok THEN Err(rs.w, rs.res)
            ELSE Appended(rk, rs, AppendPeerBlock(plan.content, rk.val[2], peer_address))
        PeerKeys(rk) ==
            IF rk.res # Ok THEN Err(rk.w, rk.res)
            ELSE IF plan.res # Ok THEN Err(rk.w, plan.res)
            ELSE ServerKey(rk, derive_public_key(plan.private_key, rk.w, o, "pubkey_server"))
    IN  PeerKeys(generate_keypair(w, o))

\* add_server_peer from the key generation on.  rk is the result of
\* generate_keypair (the peer's private and public key), rs that of
\* derive_public_key on the server's key, ry that of the live resync and rw
\* that of the final fs::write.
PeerCommit(plan, name, w, o) ==
    LET peer_address == FmtIpv4(plan.peer_ip) \o "/32"
        Err(w1, msg) == [w |-> w1, res |-> msg, val |-> None]
        Written(rk, rs, rw) ==
            IF rw.res # Ok THEN Err(rw.w, rw.res)
            ELSE [w |-> rw.w, res |-> Ok,
                  val |-> [client_config_template |->
                               ClientTemplate(rk.val[1], peer_address, rs.val),
                           suggested_filename |->
                               name \o "-peer-" \o FmtIpv4(plan.peer_ip) \o ".conf",
                           listen_port |-> plan.listen_port]]
        Synced(rk, rs, new_content, ry) ==
            IF ry.res # Ok THEN Err(ry.w, ry.res)
            ELSE Written(rk, rs, FsWriteConf(ry.w, name, new_content, o))
        Appended(rk, rs, new_content) ==
            Synced(rk, rs, new_content,
                   IF is_interface_active(name, rs.w)
                   THEN sync_interface_with_content(name, new_content, rs.w, o)
                   ELSE [w |-> rs.w, res |-> Ok])
        ServerKey(rk, rs) ==
            IF rs.res # Ok THEN Err(rs.w, rs.res)
            ELSE Appended(rk, rs, AppendPeerBlock(plan.content, rk.val[2], peer_address))
        PeerKeys(rk) ==
            IF rk.res # Ok THEN Err(rk.w, rk.res)
            ELSE ServerKey(rk, derive_public_key(plan.private_key, rk.w, o, "pubkey_server"))
    IN  IF plan.res # Ok THEN Err(w, plan.res)
        ELSE PeerKeys(generate_keypair(w, o))

add_server_peer(name, w, o) == PeerCommit(PeerPlan(name, w), name, w, o)

(***************************************************************************)
(* Discovery.                                                              *)
(***************************************************************************)
\* the ASCII characters the model's names are made of, in increasing byte
\* order (the backquote, which no input contains, is left out)
AsciiOrder ==
    "\t\n\r !\"#$%&'()*+,-./0123456789:;<=>?@ABCDEFGHIJKLMNOPQRSTUVWXYZ[\\]^_abcdefghijklmnopqrstuvwxyz{|}~"

CharCode(c) == IndexFrom(AsciiOrder, c, 1)

\* a < b in the byte-wise order of str::cmp
StrLess(a, b) ==
    LET n == IF Len(a) < Len(b) THEN Len(a) ELSE Len(b)
        diffs == {k \in 1..n : CharAt(a, k) # CharAt(b, k)}
    IN  IF diffs = {} THEN Len(a) < Len(b)
        ELSE CharCode(CharAt(a, MinOf(diffs))) < CharCode(CharAt(b, MinOf(diffs)))

\* the entries fs::read_dir(CONFIG_DIR) yields, in an order of the file system's choosing
ReadDir(w) ==
    LET paths == {ConfPath(n) : n \in DOMAIN w.files}
    IN  CHOOSE es \in [1..Cardinality(paths) -> paths] : \A p \in paths : \E i \in DOMAIN es : es[i] = p

\* Vec::insert of t into a sequence sorted by name, after the equal names (sort_by is stable)
RECURSIVE InsertByName(_, _)
InsertByName(sorted, t) ==
    IF Len(sorted) = 0 THEN <<t>>
    ELSE IF StrLess(t.name, sorted[1].name) THEN <<t>> \o sorted
    ELSE <<sorted[1]>> \o InsertByName(Tail(sorted), t)

RECURSIVE SortByName(_)
SortByName(ts) ==
    IF Len(ts) = 0 THEN <<>>
    ELSE InsertByName(SortByName(SubSeq(ts, 1, Len(ts) - 1)), ts[Len(ts)])

\* Option<InterfaceInfo>: None, and Some with the peers `wg show` lists
NoInterface == [some |-> FALSE, peers |-> {}]
SomeInterface(peers) == [some |-> TRUE, peers |-> peers]

\* discover_tunnels without the sort, on what fs::read_dir gave
DiscoverIn_unsorted(ok, entries) ==
    IF ~ok THEN <<>>
    ELSE LET IsConf(p) == Extension(p) = "conf" /\ FileStem(p) # None
             TunnelOf(p) == [name |-> FileStem(p), config_path |-> p,
                             is_active |-> FALSE, interface |-> NoInterface]
             Each(confs) == [k \in 1..Len(confs) |-> TunnelOf(confs[k])]
         IN  Each(SelectSeq(entries, IsConf))

\* discover_tunnels on what fs::read_dir gave: ok is FALSE for an Err, entries
\* are the paths in the order the file system yields them
DiscoverIn(ok, entries) ==
    IF ~ok THEN <<>>
    ELSE LET IsConf(p) == Extension(p) = "conf" /\ FileStem(p) # None
             TunnelOf(p) == [name |-> FileStem(p), config_path |-> p,
                             is_active |-> FALSE, interface |-> NoInterface]
             Each(confs) == [k \in 1..Len(confs) |-> TunnelOf(confs[k])]
         IN  SortByName(Each(SelectSeq(entries, IsConf)))

discover_tunnels(w) == DiscoverIn(w.dir, ReadDir(w))

(***************************************************************************)
(* The export.  The destination is a file outside the configuration        *)
(* directory: absent, or a file with the entries written to it so far;     *)
(* complete says that ZipWriter::finish closed the archive.                *)
(***************************************************************************)
NoFile == [exists |-> FALSE, entries |-> <<>>, complete |-> FALSE]
CreatedFile == [exists |-> TRUE, entries |-> <<>>, complete |-> FALSE]
OldArchive ==
    [exists |-> TRUE, entries |-> <<[name |-> "old.conf", content |-> "old\n"]>>,
     complete |-> TRUE]

\* export_tunnels_to_zip with the destination created before the look at the tunnels
export_tunnels_to_zip_create_first(dest_path, w, o, before) ==
    LET dest == expand_path(dest_path)
        tunnels == discover_tunnels(w)
        Err(w1, msg, file) == [w |-> w1, res |-> msg, val |-> None, dest |-> file]
        EntryOf(t) == [name |-> t.name \o ".conf", content |-> ReadPath(t.config_path, w)]
        entries == [k \in 1..Len(tunnels) |-> EntryOf(tunnels[k])]
    IN  IF o.failAt = "create" THEN Err(Log(w, "create", dest, FALSE), ErrIo, before)
        ELSE IF Len(tunnels) = 0
        THEN Err(Log(w, "create", dest, TRUE), "No tunnels to export", CreatedFile)
        ELSE [w |-> Log(w, "create", dest, TRUE), res |-> Ok, val |-> dest,
              dest |-> [exists |-> TRUE, entries |-> entries, complete |-> TRUE]]

\* export_tunnels_to_zip(dest_path) on a destination in the state `before`.
\* File::create creates or truncates the destination; the loop reads each
\* tunnel's file and writes its entry; a read that fails (here that of the
\* last tunnel) and a finish that fails leave what was written so far.
export_tunnels_to_zip(dest_path, w, o, before) ==
    LET dest == expand_path(dest_path)
        tunnels == discover_tunnels(w)
        Err(w1, msg, file) == [w |-> w1, res |-> msg, val |-> None, dest |-> file]
        EntryOf(t) == [name |-> t.name \o ".conf", content |-> ReadPath(t.config_path, w)]
        entries == [k \in 1..Len(tunnels) |-> EntryOf(tunnels[k])]
        Written(w1) ==
            IF o.failAt = "read"
            THEN Err(w1, ErrIo, [CreatedFile EXCEPT !.entries = SubSeq(entries, 1, Len(entries) - 1)])
            ELSE IF o.failAt = "finish"
            THEN Err(w1, ErrIo, [CreatedFile EXCEPT !.entries = entries])
            ELSE [w |-> w1, res |-> Ok, val |-> dest,
                  dest |-> [exists |-> TRUE, entries |-> entries, complete |-> TRUE]]
    IN  IF Len(tunnels) = 0 THEN Err(w, "No tunnels to export", before)
        ELSE IF o.failAt = "create" THEN Err(Log(w, "create", dest, FALSE), ErrIo, before)
        ELSE Written(Log(w, "create", dest, TRUE))

(***************************************************************************)
(* The state.                                                              *)
(*                                                                         *)
(* last is the call in flight: "idle" between two operations, otherwise    *)
(* the operation that has just run with its arguments, its result and the  *)
(* world it started from (pre).  The caller takes the result (Idle) before *)
(* the next operation starts.                                              *)
(***************************************************************************)
World == [dir |-> dirExists, files |-> files, ifaces |-> ifaces, temps |-> temps,
          keyCtr |-> keyCtr, calls |-> <<>>]

\* the world an operation leaves becomes the state
SetWorld(w) ==
    /\ dirExists' = w.dir
    /\ files' = w.files
    /\ ifaces' = w.ifaces
    /\ temps' = w.temps
    /\ keyCtr' = w.keyCtr
    /\ calls' = w.calls

\* the model keeps at most MaxFiles configuration files
WithinBounds(w) == Cardinality(DOMAIN w.files) <= MaxFiles

NoDraft == [name |-> ""]
NoPeerConfig == [client_config_template |-> "", suggested_filename |-> "", listen_port |-> 0]

LastOp(op, name, path, is_active, draft, res, val, peer) ==
    [op |-> op, name |-> name, path |-> path, is_active |-> is_active, draft |-> draft,
     res |-> res, val |-> val, peer |-> peer, pre |-> World]

IdleOp == [op |-> "idle"]
IsIdle == last.op = "idle"

(***************************************************************************)
(* The inputs the model draws from.                                        *)
(***************************************************************************)
Oracle(failAt) == [failAt |-> failAt, rmTemp1 |-> TRUE, rmTemp2 |-> TRUE]

DeleteOracles == {Oracle(f) : f \in {None, "wg-quick down", "remove_file"}}
CreateOracles == {Oracle(f) : f \in {None, "mkdir", "write_open"}}
ImportOracles == {Oracle(f) : f \in {None, "copy_open"}}
WgQuickOracles == {Oracle(f) : f \in {None, "wg-quick up", "wg-quick down"}}
AddPeerOracles ==
    {Oracle(f) : f \in {"genkey", "genkey_empty", "pubkey_peer", "pubkey_peer_empty",
                        "pubkey_server", "pubkey_server_empty", "temp_conf_open",
                        "temp_conf_data", "strip", "temp_stripped_open",
                        "temp_stripped_data", "syncconf"}}
    \cup {Oracle(f) : f \in {None, "write_open", "write_data"}}
    \cup {[failAt |-> None, rmTemp1 |-> FALSE, rmTemp2 |-> TRUE],
          [failAt |-> None, rmTemp1 |-> TRUE, rmTemp2 |-> FALSE],
          [failAt |-> None, rmTemp1 |-> FALSE, rmTemp2 |-> FALSE],
          [failAt |-> "write_open", rmTemp1 |-> FALSE, rmTemp2 |-> TRUE]}

BaseClientDraft ==
    [name |-> "wg0", private_key |-> "ckey0=", address |-> "10.0.0.2/32", dns |-> "",
     peer_public_key |-> "ppk0=", allowed_ips |-> "0.0.0.0/0, ::/0",
     endpoint |-> "vpn.example:51820"]

BaseServerDraft ==
    [name |-> "srv", private_key |-> "skey0=", address |-> "10.0.0.1/32",
     listen_port |-> "51820", egress_interface |-> "eth0"]

\* the configurations the directory may hold when the program starts: a
\* client and a server as the create operations write them
InitialClientText ==
    ClientConfigText("ckey0=", "10.0.0.2/32", "", "ppk0=", "0.0.0.0/0, ::/0", "vpn.example:51820")
InitialServerText == ServerConfigText("skey0=", "10.0.0.1/32", 51820, "eth0")
InitialFiles == [n \in {"wg0", "srv"} |-> IF n = "wg0" THEN InitialClientText ELSE InitialServerText]

\* the same server after a first peer was added
ServerWithPeerText == AppendPeerBlock(InitialServerText, "ppk1=", "10.0.0.2/32")

\* a server at 10.0.0.254, its IPv4 address second in the list, with peers at
\* 10.0.0.1 and 10.0.0.3 written in two ways
EdgeServerText ==
    ServerConfigText("skeye=", "fd00::1/64, 10.0.0.254/24", 51823, "eth0")
    \o "\n[Peer]\nPublicKey = ppke1=\nAllowedIPs = fd00::5/128, 10.0.0.1/32\n"
    \o "\n[peer]\npublickey=ppke3=\nallowedips=10.0.0.3\n"

PeerFiles == [n \in {"srv"} |-> ServerWithPeerText]

\* a server whose file does not end with a line feed
UnendedServerText == SubSeq(InitialServerText, 1, Len(InitialServerText) - 1)
UnendedFiles == [n \in {"open"} |-> UnendedServerText]
EdgeFiles == [n \in {"edge"} |-> EdgeServerText]

\* a server whose only Interface address is IPv6
Ipv6ServerText == ServerConfigText("skey6=", "fd00::1/64", 51821, "eth0")

\* one AllowedIPs line of a peer: the hosts 10.0.0.lo .. 10.0.0.hi
AllowedIpsLine(lo, hi) ==
    "AllowedIPs = "
    \o Join([k \in 1..(hi - lo + 1) |-> "10.0.0." \o FmtInt(lo + k - 1) \o "/32"], ", ")
    \o "\n"

\* a server at 10.0.0.1 whose peer holds every other host 10.0.0.2 .. 10.0.0.254
FullServerText ==
    ServerConfigText("skeyf=", "10.0.0.1/24", 51822, "eth0")
    \o "\n[Peer]\nPublicKey = ppk=\n"
    \o AllowedIpsLine(2, U8Max - 1)

\* tunnels add_server_peer refuses before it allocates an address
RefusedFiles ==
    [n \in {"wg0", "srv6", "full"} |->
        IF n = "wg0" THEN InitialClientText
        ELSE IF n = "srv6" THEN Ipv6ServerText
        ELSE FullServerText]

BadNames == {"", " \t", "a b", "a/b", "w\tg"}
BlankValues == {"", " \t "}

ClientDrafts ==
    {BaseClientDraft,
     [BaseClientDraft EXCEPT !.name = " wg0\n", !.private_key = " ckey0= ",
                             !.dns = " 1.1.1.1 ,, 9.9.9.9 ", !.allowed_ips = " 10.0.1.0/24,",
                             !.endpoint = "\tvpn.example:51820 "]}
    \cup {[BaseClientDraft EXCEPT !.name = n] : n \in BadNames}
    \cup {[BaseClientDraft EXCEPT ![f] = v] :
            f \in {"private_key", "address", "peer_public_key", "allowed_ips", "endpoint"},
            v \in BlankValues}
    \cup {[BaseClientDraft EXCEPT !.allowed_ips = " , "],
          [BaseClientDraft EXCEPT !.name = "a b", !.endpoint = ""]}

ListenPorts == {" 65535 ", "+80", "65536", "-1", "80x", "0x50", "99999999999"}

ServerDrafts ==
    {BaseServerDraft}
    \cup {[BaseServerDraft EXCEPT !.name = n] : n \in BadNames}
    \cup {[BaseServerDraft EXCEPT !.listen_port = p] : p \in ListenPorts}
    \cup {[BaseServerDraft EXCEPT ![f] = v] :
            f \in {"private_key", "address", "listen_port", "egress_interface"},
            v \in BlankValues}
    \cup {[BaseServerDraft EXCEPT !.name = "a b", !.listen_port = "65536"]}
    \cup {[BaseServerDraft EXCEPT !.address = " fd00::1/64 ,10.0.7.1/24 ",
                                 !.private_key = "\tskey9= ", !.listen_port = "0080"],
          [BaseServerDraft EXCEPT !.address = "fd00::1/64"]}

ImportPaths ==
    {"~/wg0.conf", " /tmp/my vpn.conf ", "/tmp/notes.txt", "/tmp/srv.conf",
     "/etc/wireguard/srv.conf"}

\* the destinations the export is called with
ExportPaths == {"~/wg-tunnels.zip", " /tmp/out.zip "}
ExportOracles == {Oracle(f) : f \in {None, "create", "read", "finish"}}

\* the names the operations on an existing tunnel are called with
TargetNames == (DOMAIN files) \cup {"ghost"}

(***************************************************************************)
(* The application (app.rs).                                               *)
(*                                                                         *)
(* A key is "Enter", "Esc", "Backspace" or, for KeyCode::Char(c), the      *)
(* one-character string c.  A handler takes the App a, the world w, the    *)
(* key and the oracle o and returns the App and the world it leaves and,   *)
(* in l, the call of wireguard.rs it made ([op |-> "idle"] if none).       *)
(***************************************************************************)
NoMessage == [kind |-> "None", text |-> ""]
Message(kind, text) == [kind |-> kind, text |-> text]

\* <Error as Display>::to_string
ErrorText(res) == IF res = ErrIo THEN ErrIo ELSE "WireGuard tui error: " \o res

NoWizard == [kind |-> "None", step |-> 0, draft |-> NoDraft]
NoPending == [some |-> FALSE, template |-> "", suggested_path |-> "", endpoint |-> ""]
NoPeerState == [some |-> FALSE, config_text |-> "", suggested_path |-> "", show_qr |-> FALSE]

NoCall == [op |-> "idle"]
Made(op, name, path, is_active, draft, res, peer) ==
    [op |-> op, name |-> name, path |-> path, is_active |-> is_active, draft |-> draft,
     res |-> res, peer |-> peer]

Handled(a, w, l) == [a |-> a, w |-> w, l |-> l]

IsChar(key) == Len(key) = 1

\* String::pop
Pop(text) == IF Len(text) = 0 THEN text ELSE SubSeq(text, 1, Len(text) - 1)

\* get_interface_info, as far as the model follows it: the peers of the interface
get_interface_info(name, w) ==
    IF name \in DOMAIN w.ifaces THEN SomeInterface(w.ifaces[name]) ELSE NoInterface

\* the list with the status query made for every tunnel, up or down
RefreshedTunnels_query_all(w) ==
    LET Live(t) ==
            [t EXCEPT !.is_active = is_interface_active(t.name, w),
                      !.interface = SomeInterface(IF t.name \in DOMAIN w.ifaces
                                                  THEN w.ifaces[t.name] ELSE {})]
        Each(ts) == [k \in 1..Len(ts) |-> Live(ts[k])]
    IN  Each(discover_tunnels(w))

\* the list refresh_tunnels builds: discovery merged with the live status
RefreshedTunnels(w) ==
    LET Live(t) ==
            IF is_interface_active(t.name, w)
            THEN [t EXCEPT !.is_active = TRUE, !.interface = get_interface_info(t.name, w)]
            ELSE t
        Each(ts) == [k \in 1..Len(ts) |-> Live(ts[k])]
    IN  Each(discover_tunnels(w))

clamp_selection(a) ==
    LET len == Len(a.tunnels)
    IN  [a EXCEPT !.selected =
            IF len = 0 THEN NoInt
            ELSE IF a.selected = NoInt \/ a.selected = 0 THEN 0
            ELSE IF a.selected < len - 1 THEN a.selected ELSE len - 1]

\* refresh_tunnels; the world records that the directory was read
refresh_tunnels(a, w) ==
    [a |-> clamp_selection([a EXCEPT !.tunnels = RefreshedTunnels(w)]),
     w |-> Log(w, "read_dir", CONFIG_DIR, w.dir)]

\* a handler that ends with refresh_tunnels: rf is what refresh_tunnels returned
Refreshed(rf, l) == Handled(rf.a, rf.w, l)

\* App::new
AppNew(w) ==
    LET a0 == [tunnels |-> <<>>, selected |-> NoInt, show_details |-> FALSE,
               show_help |-> FALSE, confirm_delete |-> FALSE, confirm_full_tunnel |-> None,
               show_add_menu |-> FALSE, input_path |-> None, export_path |-> None,
               new_tunnel |-> NoWizard, pending_peer |-> NoPending,
               peer_endpoint_input |-> None, peer_dns_input |-> None,
               peer_config |-> NoPeerState, peer_save_path |-> None,
               message |-> NoMessage, should_quit |-> FALSE]
        SelectFirst(a1) == IF Len(a1.tunnels) # 0 THEN [a1 EXCEPT !.selected = 0] ELSE a1
    IN  SelectFirst(refresh_tunnels(a0, w).a)

\* App::selected
HasSelected(a) == a.selected # NoInt /\ a.selected < Len(a.tunnels)
SelectedTunnel(a) == a.tunnels[a.selected + 1]

move_selection(a, delta) ==
    IF a.selected = NoInt THEN a
    ELSE LET top == IF Len(a.tunnels) = 0 THEN 0 ELSE Len(a.tunnels) - 1
             new == a.selected + delta
         IN  [a EXCEPT !.selected = IF new < 0 THEN 0 ELSE IF new > top THEN top ELSE new]

is_full_tunnel_config(name, w) ==
    w.dir /\ name \in DOMAIN w.files /\ FullTunnelText(w.files[name])

toggle_selected_with_name(a, w, name, o) ==
    LET found == {k \in 1..Len(a.tunnels) : a.tunnels[k].name = name}
        active == IF found = {} THEN FALSE ELSE a.tunnels[MinOf(found)].is_active
        action == IF active THEN "down" ELSE "up"
        Call(r) == Made("wg_quick " \o action, name, "", active, NoDraft, r.res, NoPeerConfig)
        \* the match on what wg_quick returned
        Match(r) ==
            IF r.res = Ok
            THEN Refreshed(refresh_tunnels(
                               [a EXCEPT !.message =
                                   Message("Success",
                                           "Tunnel '" \o name \o "' "
                                           \o (IF active THEN "stopped" ELSE "started"))],
                               r.w),
                           Call(r))
            ELSE Handled([a EXCEPT !.message = Message("Error", ErrorText(r.res))], r.w,
                         Call(r))
    IN  Match(wg_quick(action, name, w, o))

\* toggle_selected without the look at the configuration
toggle_selected_no_warning(a, w, o) ==
    IF ~HasSelected(a) THEN Handled(a, w, NoCall)
    ELSE toggle_selected_with_name(a, w, SelectedTunnel(a).name, o)

toggle_selected(a, w, o) ==
    IF ~HasSelected(a) THEN Handled(a, w, NoCall)
    ELSE LET name == SelectedTunnel(a).name
             active == SelectedTunnel(a).is_active
         IN  IF ~active /\ is_full_tunnel_config(name, w)
             THEN Handled([a EXCEPT !.confirm_full_tunnel = name], w, NoCall)
             ELSE toggle_selected_with_name(a, w, name, o)

delete_selected(a, w, o) ==
    IF ~HasSelected(a) THEN Handled(a, w, NoCall)
    ELSE LET name == SelectedTunnel(a).name
             active == SelectedTunnel(a).is_active
             Call(r) == Made("delete_tunnel", name, "", active, NoDraft, r.res, NoPeerConfig)
             \* the match on what delete_tunnel returned
             Match(r) ==
                 IF r.res = Ok
                 THEN Refreshed(refresh_tunnels(
                                    [a EXCEPT !.message =
                                        Message("Success", "Tunnel '" \o name \o "' deleted")],
                                    r.w),
                                Call(r))
                 ELSE Handled([a EXCEPT !.message = Message("Error", ErrorText(r.res))], r.w,
                              Call(r))
         IN  Match(delete_tunnel(name, active, w, o))

consume_help(a, w) == Handled([a EXCEPT !.show_help = FALSE], w, NoCall)

\* the delete confirmation taking every key for a yes
consume_confirm_delete_any_key(a, w, key, o) ==
    delete_selected([a EXCEPT !.confirm_delete = FALSE], w, o)

consume_confirm_delete(a, w, key, o) ==
    IF key \in {"y", "Y"}
    THEN delete_selected([a EXCEPT !.confirm_delete = FALSE], w, o)
    ELSE Handled([a EXCEPT !.confirm_delete = FALSE,
                           !.message = Message("Info", "Delete cancelled")], w, NoCall)

consume_confirm_full_tunnel(a, w, key, o) ==
    IF key \in {"y", "Y"}
    THEN toggle_selected_with_name([a EXCEPT !.confirm_full_tunnel = None], w,
                                   a.confirm_full_tunnel, o)
    ELSE Handled([a EXCEPT !.confirm_full_tunnel = None,
                           !.message = Message("Info", "Enable cancelled")], w, NoCall)

consume_import_path(a, w, key, o) ==
    LET a1 == [a EXCEPT !.input_path = None]
        Call(r) == Made("import_tunnel", "", a.input_path, FALSE, NoDraft, r.res, NoPeerConfig)
        \* the match on what import_tunnel returned
        Match(r) ==
            IF r.res = Ok
            THEN Refreshed(refresh_tunnels(
                               [a1 EXCEPT !.message =
                                   Message("Success", "Tunnel '" \o r.val \o "' imported")],
                               r.w),
                           Call(r))
            ELSE Handled([a1 EXCEPT !.message = Message("Error", ErrorText(r.res))], r.w,
                         Call(r))
    IN  IF key = "Enter" THEN Match(import_tunnel(a.input_path, w, o))
        ELSE IF key = "Esc"
        THEN Handled([a1 EXCEPT !.message = Message("Info", "Import cancelled")], w, NoCall)
        ELSE IF key = "Backspace"
        THEN Handled([a EXCEPT !.input_path = Pop(@)], w, NoCall)
        ELSE IF IsChar(key)
        THEN Handled([a EXCEPT !.input_path = @ \o key], w, NoCall)
        ELSE Handled(a, w, NoCall)

\* consume_peer_save_path.  The destination is a file outside the
\* configuration directory: the oracle says whether it exists already and
\* whether fs::write works.
consume_peer_save_path(a, w, key, o) ==
    LET a1 == [a EXCEPT !.peer_save_path = None]
        dest == expand_path(a.peer_save_path)
    IN  IF key = "Enter"
        THEN IF ~a.peer_config.some THEN Handled(a1, w, NoCall)
             ELSE IF o.failAt = "save_exists"
             THEN Handled([a1 EXCEPT !.message = Message("Error", "File already exists")],
                          w, NoCall)
             ELSE IF o.failAt = "save_write"
             THEN Handled([a1 EXCEPT !.message = Message("Error", ErrIo)],
                          Log(w, "write_peer_file", dest, FALSE), NoCall)
             ELSE Handled([a1 EXCEPT !.message =
                               Message("Success", "Peer config saved to " \o dest)],
                          Log(w, "write_peer_file", dest, TRUE), NoCall)
        ELSE IF key = "Esc"
        THEN Handled([a1 EXCEPT !.message = Message("Info", "Save cancelled")], w, NoCall)
        ELSE IF key = "Backspace"
        THEN Handled([a EXCEPT !.peer_save_path = Pop(@)], w, NoCall)
        ELSE IF IsChar(key)
        THEN Handled([a EXCEPT !.peer_save_path = @ \o key], w, NoCall)
        ELSE Handled(a, w, NoCall)

\* consume_export_path; the archive is written outside the configuration
\* directory, to a destination that did not exist
consume_export_path(a, w, key, o) ==
    LET a1 == [a EXCEPT !.export_path = None]
        Call(r) == Made("export_tunnels_to_zip", "", a.export_path, FALSE, NoDraft, r.res,
                        NoPeerConfig)
        \* the match on what export_tunnels_to_zip returned
        Match(r) ==
            IF r.res = Ok
            THEN Handled([a1 EXCEPT !.message =
                              Message("Success", "Exported " \o FmtInt(Len(a.tunnels))
                                                 \o " tunnels to " \o r.val)],
                         r.w, Call(r))
            ELSE Handled([a1 EXCEPT !.message = Message("Error", ErrorText(r.res))], r.w,
                         Call(r))
    IN  IF key = "Enter" THEN Match(export_tunnels_to_zip(a.export_path, w, o, NoFile))
        ELSE IF key = "Esc"
        THEN Handled([a1 EXCEPT !.message = Message("Info", "Export cancelled")], w, NoCall)
        ELSE IF key = "Backspace"
        THEN Handled([a EXCEPT !.export_path = Pop(@)], w, NoCall)
        ELSE IF IsChar(key)
        THEN Handled([a EXCEPT !.export_path = @ \o key], w, NoCall)
        ELSE Handled(a, w, NoCall)

consume_peer_endpoint_input(a, w, key) ==
    LET endpoint_str == Trim(a.peer_endpoint_input)
    IN  IF key = "Enter"
        THEN IF IsEmpty(endpoint_str)
             THEN Handled([a EXCEPT !.message = Message("Error", "Endpoint is required")],
                          w, NoCall)
             ELSE Handled([a EXCEPT !.pending_peer =
                                        IF @.some THEN [@ EXCEPT !.endpoint = endpoint_str]
                                        ELSE @,
                                    !.peer_endpoint_input = None,
                                    !.peer_dns_input = ""], w, NoCall)
        ELSE IF key = "Esc"
        THEN Handled([a EXCEPT !.peer_endpoint_input = None, !.pending_peer = NoPending,
                               !.message = Message("Info", "Peer config cancelled")],
                     w, NoCall)
        ELSE IF key = "Backspace"
        THEN Handled([a EXCEPT !.peer_endpoint_input = Pop(@)], w, NoCall)
        ELSE IF IsChar(key)
        THEN Handled([a EXCEPT !.peer_endpoint_input = @ \o key], w, NoCall)
        ELSE Handled(a, w, NoCall)

\* str::replace: every occurrence of `from`, left to right, becomes `to`
RECURSIVE Replace(_, _, _)
Replace(text, from, to) ==
    LET FromFirst(at) ==
            IF at = {} THEN text
            ELSE SubSeq(text, 1, MinOf(at) - 1) \o to
                 \o Replace(SubSeq(text, MinOf(at) + Len(from), Len(text)), from, to)
    IN  FromFirst({k \in 1..(Len(text) - Len(from) + 1) :
                      SubSeq(text, k, k + Len(from) - 1) = from})

consume_peer_dns_input(a, w, key) ==
    LET pending == a.pending_peer
        DnsBlock(dns_str) == IF IsEmpty(dns_str) THEN "" ELSE "DNS = " \o dns_str \o "\n"
        config_text ==
            Replace(Replace(pending.template, ENDPOINT_PLACEHOLDER, pending.endpoint),
                    DNS_BLOCK_PLACEHOLDER, DnsBlock(Trim(a.peer_dns_input)))
    IN  IF key = "Enter"
        THEN IF ~pending.some
             THEN Handled([a EXCEPT !.peer_dns_input = None], w, NoCall)
             ELSE Handled([a EXCEPT !.pending_peer = NoPending,
                                    !.peer_config =
                                        [some |-> TRUE, config_text |-> config_text,
                                         suggested_path |-> pending.suggested_path,
                                         show_qr |-> FALSE],
                                    !.peer_dns_input = None], w, NoCall)
        ELSE IF key = "Esc"
        THEN Handled([a EXCEPT !.peer_dns_input = None, !.pending_peer = NoPending,
                               !.message = Message("Info", "Peer config cancelled")],
                     w, NoCall)
        ELSE IF key = "Backspace"
        THEN Handled([a EXCEPT !.peer_dns_input = Pop(@)], w, NoCall)
        ELSE IF IsChar(key)
        THEN Handled([a EXCEPT !.peer_dns_input = @ \o key], w, NoCall)
        ELSE Handled(a, w, NoCall)

\* the fields the steps of the two wizards edit (current_value, current_value_mut)
ClientStepField ==
    <<"name", "private_key", "address", "dns", "peer_public_key", "allowed_ips", "endpoint">>
ServerStepField == <<"name", "address", "listen_port", "egress_interface">>

StepField(wizard) ==
    IF wizard.kind = "Client" THEN ClientStepField[wizard.step]
    ELSE ServerStepField[wizard.step]

current_value(wizard) == wizard.draft[StepField(wizard)]

\* NewClientWizard::new and NewServerWizard::new
NewClientWizard(name) ==
    [kind |-> "Client", step |-> 1,
     draft |-> [name |-> name, private_key |-> "", address |-> "10.0.0.2/32", dns |-> "",
                peer_public_key |-> "", allowed_ips |-> "0.0.0.0/0, ::/0",
                endpoint |-> ""]]

NewServerWizard(name, address, listen_port, private_key, egress_interface) ==
    [kind |-> "Server", step |-> 1,
     draft |-> [name |-> name, private_key |-> private_key, address |-> address,
                listen_port |-> listen_port, egress_interface |-> egress_interface]]

\* validate_current that accepts every value
validate_current_accept_all(wizard) == None

\* validate_current: None if the value of the step is acceptable, else the message
validate_current(wizard) ==
    LET value == Trim(current_value(wizard))
        field == StepField(wizard)
    IN  IF field = "name"
        THEN IF IsEmpty(value) THEN ErrNameRequired
             ELSE IF \E i \in 1..Len(value) :
                        IsWhitespace(CharAt(value, i)) \/ CharAt(value, i) = "/"
             THEN ErrNameChars
             ELSE None
        ELSE IF field = "dns" THEN None
        ELSE IF IsEmpty(value) THEN "Field is required"
        ELSE None

\* the step has no next step (advance returns true)
LastStepOf(wizard) ==
    wizard.step = (IF wizard.kind = "Client" THEN Len(ClientStepField)
                   ELSE Len(ServerStepField))

consume_new_tunnel_wizard(a, w, key, o) ==
    LET wizard == a.new_tunnel
        draft == wizard.draft
        a1 == [a EXCEPT !.new_tunnel = NoWizard]
        Call(r) ==
            Made(IF wizard.kind = "Client" THEN "create_tunnel" ELSE "create_server_tunnel",
                 Trim(draft.name), "", FALSE, draft, r.res, NoPeerConfig)
        \* the match on what create_tunnel or create_server_tunnel returned
        Match(r) ==
            IF r.res = Ok
            THEN Refreshed(refresh_tunnels(
                               [a1 EXCEPT !.message =
                                   Message("Success", "Tunnel '" \o draft.name \o "' created")],
                               r.w),
                           Call(r))
            ELSE Handled([a1 EXCEPT !.message = Message("Error", ErrorText(r.res))], r.w,
                         Call(r))
        \* Enter, given what validate_current returned
        Enter(err) ==
            IF err # None
            THEN Handled([a EXCEPT !.message = Message("Error", err)], w, NoCall)
            ELSE IF ~LastStepOf(wizard)
            THEN Handled([a EXCEPT !.new_tunnel.step = @ + 1], w, NoCall)
            ELSE Match(IF wizard.kind = "Client" THEN create_tunnel(draft, w, o)
                       ELSE create_server_tunnel(draft, w, o))
    IN  IF key = "Enter" THEN Enter(validate_current(wizard))
        ELSE IF key = "Esc"
        THEN Handled([a1 EXCEPT !.message = Message("Info", "Create cancelled")], w, NoCall)
        ELSE IF key = "Backspace"
        THEN Handled([a EXCEPT !.new_tunnel.draft[StepField(wizard)] = Pop(@)], w, NoCall)
        ELSE IF IsChar(key)
        THEN Handled([a EXCEPT !.new_tunnel.draft[StepField(wizard)] = @ \o key], w, NoCall)
        ELSE Handled(a, w, NoCall)

\* the peer-config view with q quitting the program
consume_peer_config_q_quits(a, w, key) ==
    IF key = "s"
    THEN Handled([a EXCEPT !.peer_save_path = a.peer_config.suggested_path,
                           !.peer_config.show_qr = FALSE], w, NoCall)
    ELSE IF key = "q" THEN Handled([a EXCEPT !.should_quit = TRUE], w, NoCall)
    ELSE IF key = "b" THEN Handled([a EXCEPT !.peer_config.show_qr = FALSE], w, NoCall)
    ELSE IF key = "Esc" THEN Handled([a EXCEPT !.peer_config = NoPeerState], w, NoCall)
    ELSE Handled(a, w, NoCall)

consume_peer_config(a, w, key) ==
    IF key = "s"
    THEN Handled([a EXCEPT !.peer_save_path = a.peer_config.suggested_path,
                           !.peer_config.show_qr = FALSE], w, NoCall)
    ELSE IF key = "q" THEN Handled([a EXCEPT !.peer_config.show_qr = TRUE], w, NoCall)
    ELSE IF key = "b" THEN Handled([a EXCEPT !.peer_config.show_qr = FALSE], w, NoCall)
    ELSE IF key = "Esc" THEN Handled([a EXCEPT !.peer_config = NoPeerState], w, NoCall)
    ELSE Handled(a, w, NoCall)

\* default_tunnel_name: the first of wg0 .. wg999 that the list does not hold
default_tunnel_name(a) ==
    LET taken(i) == \E k \in 1..Len(a.tunnels) : a.tunnels[k].name = "wg" \o FmtInt(i)
        free == {i \in 0..(Len(a.tunnels)) : ~taken(i)}
    IN  "wg" \o FmtInt(MinOf(free))

\* used_interface_ipv4_addresses
used_interface_ipv4_addresses(w) ==
    LET Hosts(addrs) == {parse_ipv4_address(addrs[j]) : j \in 1..Len(addrs)} \ {<<>>}
        OfTunnels(ts) ==
            UNION {Hosts(parse_interface_addresses(w.files[ts[k].name])) : k \in 1..Len(ts)}
    IN  OfTunnels(discover_tunnels(w))

\* suggest_server_address that begins its scan at 10.0.1.1
suggest_server_address_from_one(w) ==
    LET First(free) ==
            IF free = {} THEN "10.0.0.1/32"
            ELSE FmtIpv4(<<10, 0, MinOf(free), 1>>) \o "/32"
        Free(used) == {i \in 1..U8Max : <<10, 0, i, 1>> \notin used}
    IN  First(Free(used_interface_ipv4_addresses(w)))

suggest_server_address(w) ==
    LET First(free) ==
            IF free = {} THEN "10.0.0.1/32"
            ELSE FmtIpv4(<<10, 0, MinOf(free), 1>>) \o "/32"
        Free(used) == {i \in 0..U8Max : <<10, 0, i, 1>> \notin used}
    IN  First(Free(used_interface_ipv4_addresses(w)))

\* what `ip route show default` names, and what api.ipify.org answers
DefaultEgress == "eth0"
PublicIp == "192.0.2.1"

\* the add menu left open by the choice made in it
consume_add_menu_stays_open(a, w, key, o) ==
    LET a1 == a
        \* the server wizard, given what generate_private_key returned
        Server(rk) ==
            IF rk.res # Ok
            THEN Handled([a1 EXCEPT !.message = Message("Error", ErrorText(rk.res))],
                         rk.w, NoCall)
            ELSE Handled([a1 EXCEPT !.new_tunnel =
                              NewServerWizard(default_tunnel_name(a),
                                              suggest_server_address(w), "51820",
                                              rk.val, DefaultEgress)],
                         rk.w, NoCall)
    IN  IF key \in {"i", "1"} THEN Handled([a1 EXCEPT !.input_path = ""], w, NoCall)
        ELSE IF key \in {"c", "2"}
        THEN Handled([a1 EXCEPT !.new_tunnel = NewClientWizard(default_tunnel_name(a))],
                     w, NoCall)
        ELSE IF key \in {"s", "3"} THEN Server(generate_private_key(w, o))
        ELSE IF key \in {"Esc", "q"} THEN Handled(a1, w, NoCall)
        ELSE Handled(a, w, NoCall)

consume_add_menu(a, w, key, o) ==
    LET a1 == [a EXCEPT !.show_add_menu = FALSE]
        \* the server wizard, given what generate_private_key returned
        Server(rk) ==
            IF rk.res # Ok
            THEN Handled([a1 EXCEPT !.message = Message("Error", ErrorText(rk.res))],
                         rk.w, NoCall)
            ELSE Handled([a1 EXCEPT !.new_tunnel =
                              NewServerWizard(default_tunnel_name(a),
                                              suggest_server_address(w), "51820",
                                              rk.val, DefaultEgress)],
                         rk.w, NoCall)
    IN  IF key \in {"i", "1"} THEN Handled([a1 EXCEPT !.input_path = ""], w, NoCall)
        ELSE IF key \in {"c", "2"}
        THEN Handled([a1 EXCEPT !.new_tunnel = NewClientWizard(default_tunnel_name(a))],
                     w, NoCall)
        ELSE IF key \in {"s", "3"} THEN Server(generate_private_key(w, o))
        ELSE IF key \in {"Esc", "q"} THEN Handled(a1, w, NoCall)
        ELSE Handled(a, w, NoCall)

handle_global_key(a, w, key, o) ==
    LET name == SelectedTunnel(a).name
        Endpoint(peer) == PublicIp \o ":" \o FmtInt(peer.listen_port)
        Call(r) ==
            Made("add_server_peer", name, "", is_interface_active(name, w), NoDraft, r.res,
                 IF r.res = Ok THEN r.val ELSE NoPeerConfig)
        \* the match on what add_server_peer returned
        Match(r) ==
            IF r.res = Ok
            THEN Refreshed(refresh_tunnels(
                               [a EXCEPT !.pending_peer =
                                             [some |-> TRUE,
                                              template |-> r.val.client_config_template,
                                              suggested_path |-> r.val.suggested_filename,
                                              endpoint |-> Endpoint(r.val)],
                                         !.peer_endpoint_input = Endpoint(r.val),
                                         !.message = Message("Success", "Peer added")],
                               r.w),
                           Call(r))
            ELSE Handled([a EXCEPT !.message = Message("Error", ErrorText(r.res))], r.w,
                         Call(r))
        \* the 'r' key: refresh_tunnels, then the message
        Reloaded(rf) == Handled([rf.a EXCEPT !.message = Message("Info", "Refreshed")],
                                rf.w, NoCall)
    IN  IF key \in {"q", "Esc"} THEN Handled([a EXCEPT !.should_quit = TRUE], w, NoCall)
        ELSE IF key = "Ctrl-c" THEN Handled([a EXCEPT !.should_quit = TRUE], w, NoCall)
        ELSE IF key \in {"j", "Down"} THEN Handled(move_selection(a, 1), w, NoCall)
        ELSE IF key \in {"k", "Up"} THEN Handled(move_selection(a, 0 - 1), w, NoCall)
        ELSE IF key = "g" THEN Handled([a EXCEPT !.selected = 0], w, NoCall)
        ELSE IF key = "G"
        THEN Handled([a EXCEPT !.selected =
                          IF Len(a.tunnels) = 0 THEN 0 ELSE Len(a.tunnels) - 1], w, NoCall)
        ELSE IF key \in {"Enter", " "} THEN toggle_selected(a, w, o)
        ELSE IF key = "d" THEN Handled([a EXCEPT !.show_details = ~@], w, NoCall)
        ELSE IF key = "x"
        THEN Handled(IF HasSelected(a) THEN [a EXCEPT !.confirm_delete = TRUE] ELSE a,
                     w, NoCall)
        ELSE IF key = "a" THEN Handled([a EXCEPT !.show_add_menu = TRUE], w, NoCall)
        ELSE IF key = "p"
        THEN IF ~HasSelected(a) THEN Handled(a, w, NoCall)
             ELSE Match(add_server_peer(name, w, o))
        ELSE IF key = "e"
        THEN Handled(IF Len(a.tunnels) = 0
                     THEN [a EXCEPT !.message = Message("Error", "No tunnels to export")]
                     ELSE [a EXCEPT !.export_path = "wg-tunnels.zip"], w, NoCall)
        ELSE IF key = "r" THEN Reloaded(refresh_tunnels(a, w))
        ELSE IF key = "?" THEN Handled([a EXCEPT !.show_help = TRUE], w, NoCall)
        ELSE Handled(a, w, NoCall)

\* the overlay that takes the next key, in the order handle_key asks them
Dispatch(a) ==
    IF a.show_help THEN "help"
    ELSE IF a.confirm_delete THEN "confirm_delete"
    ELSE IF a.confirm_full_tunnel # None THEN "confirm_full_tunnel"
    ELSE IF a.peer_save_path # None THEN "peer_save_path"
    ELSE IF a.input_path # None THEN "import_path"
    ELSE IF a.export_path # None THEN "export_path"
    ELSE IF a.peer_endpoint_input # None THEN "peer_endpoint_input"
    ELSE IF a.peer_dns_input # None THEN "peer_dns_input"
    ELSE IF a.new_tunnel.kind # "None" THEN "new_tunnel_wizard"
    ELSE IF a.peer_config.some THEN "peer_config"
    ELSE IF a.show_add_menu THEN "add_menu"
    ELSE "global"

\* The key Ctrl-C is KeyCode::Char('c') with the CONTROL modifier: only
\* handle_global_key looks at the modifiers, the overlays see the code.
CtrlC == "Ctrl-c"
KeyCodeOf(key) == IF key = CtrlC THEN "c" ELSE key

\* handle_key: the message is cleared, then the first open overlay consumes
\* the key; handle_global_key gets it only if none is open
handle_key(a, w, key, o) ==
    LET a0 == [a EXCEPT !.message = NoMessage]
        to == Dispatch(a0)
        code == KeyCodeOf(key)
    IN  IF to = "help" THEN consume_help(a0, w)
        ELSE IF to = "confirm_delete" THEN consume_confirm_delete(a0, w, code, o)
        ELSE IF to = "confirm_full_tunnel" THEN consume_confirm_full_tunnel(a0, w, code, o)
        ELSE IF to = "peer_save_path" THEN consume_peer_save_path(a0, w, code, o)
        ELSE IF to = "import_path" THEN consume_import_path(a0, w, code, o)
        ELSE IF to = "export_path" THEN consume_export_path(a0, w, code, o)
        ELSE IF to = "peer_endpoint_input" THEN consume_peer_endpoint_input(a0, w, code)
        ELSE IF to = "peer_dns_input" THEN consume_peer_dns_input(a0, w, code)
        ELSE IF to = "new_tunnel_wizard" THEN consume_new_tunnel_wizard(a0, w, code, o)
        ELSE IF to = "peer_config" THEN consume_peer_config(a0, w, code)
        ELSE IF to = "add_menu" THEN consume_add_menu(a0, w, code, o)
        ELSE handle_global_key(a0, w, key, o)

(***************************************************************************)
(* The status parser: parse_wg_output on the text `wg show <name>` prints. *)
(*                                                                         *)
(* An InterfaceInfo is a record; listen_port is NoInt for None.  A         *)
(* PeerInfo is a record whose endpoint and latest_handshake are None or    *)
(* the string; the open peer (Option<PeerInfo>) is <<>> or <<p>>.  A byte  *)
(* count (u64) is the pair <<hi, lo>> that stands for hi * 2^20 + lo.      *)
(***************************************************************************)
\* str::split(&str): the pieces between the occurrences of sep, left to right
RECURSIVE SplitStrFrom(_, _, _)
SplitStrFrom(s, sep, start) ==
    LET Cut(at) ==
            IF at = {} THEN <<SubSeq(s, start, Len(s))>>
            ELSE <<SubSeq(s, start, MinOf(at) - 1)>>
                 \o SplitStrFrom(s, sep, MinOf(at) + Len(sep))
    IN  Cut({k \in start..(Len(s) - Len(sep) + 1) : SubSeq(s, k, k + Len(sep) - 1) = sep})

SplitStr(s, sep) == SplitStrFrom(s, sep, 1)

\* str::split_whitespace: the maximal runs of characters that are not white space
RECURSIVE SplitWhitespaceFrom(_, _)
SplitWhitespaceFrom(s, i) ==
    LET Token(from, ws) ==
            IF from > Len(s) THEN <<>>
            ELSE IF ws = {} THEN <<SubSeq(s, from, Len(s))>>
            ELSE <<SubSeq(s, from, MinOf(ws) - 1)>> \o SplitWhitespaceFrom(s, MinOf(ws))
        Start(from) == Token(from, {k \in from..Len(s) : IsWhitespace(CharAt(s, k))})
    IN  Start(FirstNonWs(s, i))

SplitWhitespace(s) == SplitWhitespaceFrom(s, 1)

\* str::to_uppercase on ASCII text
ToAsciiUpper(c) ==
    IF \E k \in 1..26 : LowerChars[k] = c
    THEN UpperChars[CHOOSE k \in 1..26 : LowerChars[k] = c]
    ELSE c
UpperStr(s) == Join([k \in 1..Len(s) |-> ToAsciiUpper(CharAt(s, k))], "")

\* the f64 a decimal literal stands for, as the exact fraction n / 10^scale
\* with its sign: an optional sign, digits, and at most one point with
\* digits on one side of it at least.  Literals with an exponent, inf and
\* nan are not in the model's texts.  Failed is the None of parse().ok().
F64Failed == [ok |-> FALSE, neg |-> FALSE, n |-> 0, scale |-> 0]
ParseF64(s) ==
    LET Number(neg, whole, frac) ==
            IF ~AllDigits(whole) \/ ~AllDigits(frac) \/ Len(whole) + Len(frac) = 0
            THEN F64Failed
            ELSE [ok |-> TRUE, neg |-> neg, n |-> DecValue(whole \o frac, 1, 0, 100000000),
                  scale |-> Len(frac)]
        Unsigned(neg, body, cut) ==
            IF cut = <<>> THEN Number(neg, body, "") ELSE Number(neg, cut[1], cut[2])
        Signed(neg, body) == Unsigned(neg, body, SplitOnce(body, "."))
    IN  IF StartsWith(s, "-") THEN Signed(TRUE, SubSeq(s, 2, Len(s)))
        ELSE IF StartsWith(s, "+") THEN Signed(FALSE, SubSeq(s, 2, Len(s)))
        ELSE Signed(FALSE, s)

KIB == 1024
MIB == 1048576

RECURSIVE Pow10(_)
Pow10(k) == IF k = 0 THEN 1 ELSE 10 * Pow10(k - 1)

\* x * 1024 for x = hi * 2^20 + lo + rem / den, kept exact
Times1024(x) ==
    [hi |-> x.hi * KIB + (x.lo * KIB + (x.rem * KIB) \div x.den) \div MIB,
     lo |-> (x.lo * KIB + (x.rem * KIB) \div x.den) % MIB,
     rem |-> (x.rem * KIB) % x.den,
     den |-> x.den]

RECURSIVE TimesKiBPower(_, _)
TimesKiBPower(x, k) == IF k = 0 THEN x ELSE TimesKiBPower(Times1024(x), k - 1)

\* (val * 1024^k) as u64: the fraction is cut off, a negative value gives 0.
\* Multiplying an f64 by a power of two is exact, so for the literals of the
\* model (at most two decimals) the cut is that of the exact product.
ScaledBytes(val, k) ==
    LET Whole(x) == <<x.hi, x.lo>>
        den == Pow10(val.scale)
    IN  IF val.neg THEN <<0, 0>>
        ELSE Whole(TimesKiBPower([hi |-> (val.n \div den) \div MIB,
                                  lo |-> (val.n \div den) % MIB,
                                  rem |-> val.n % den, den |-> den], k))

\* parse_bytes with the unit compared as written
parse_bytes_unit_as_written(s) ==
    LET Unit(val, unit) ==
            IF unit = "B" THEN ScaledBytes(val, 0)
            ELSE IF unit = "KiB" THEN ScaledBytes(val, 1)
            ELSE IF unit = "MiB" THEN ScaledBytes(val, 2)
            ELSE IF unit = "GiB" THEN ScaledBytes(val, 3)
            ELSE IF unit = "TiB" THEN ScaledBytes(val, 4)
            ELSE <<0, 0>>
        Magnitude(v) == IF v.ok THEN v ELSE [F64Failed EXCEPT !.ok = TRUE]
        Parts(parts) ==
            Unit(Magnitude(IF Len(parts) >= 1 THEN ParseF64(parts[1]) ELSE F64Failed),
                 IF Len(parts) >= 2 THEN parts[2] ELSE None)
    IN  Parts(SplitWhitespace(Replace(Replace(s, " received", ""), " sent", "")))

\* parse_bytes
parse_bytes(s) ==
    LET Unit(val, unit) ==
            IF unit = "B" THEN ScaledBytes(val, 0)
            ELSE IF unit = "KIB" THEN ScaledBytes(val, 1)
            ELSE IF unit = "MIB" THEN ScaledBytes(val, 2)
            ELSE IF unit = "GIB" THEN ScaledBytes(val, 3)
            ELSE IF unit = "TIB" THEN ScaledBytes(val, 4)
            ELSE <<0, 0>>
        Magnitude(v) == IF v.ok THEN v ELSE [F64Failed EXCEPT !.ok = TRUE]
        Parts(parts) ==
            Unit(Magnitude(IF Len(parts) >= 1 THEN ParseF64(parts[1]) ELSE F64Failed),
                 IF Len(parts) >= 2 THEN UpperStr(parts[2]) ELSE None)
    IN  Parts(SplitWhitespace(Replace(Replace(s, " received", ""), " sent", "")))

\* InterfaceInfo::default() and a PeerInfo with the other fields at their defaults
DefaultInterfaceInfo == [public_key |-> "", listen_port |-> NoInt, peers |-> <<>>]
NewPeerInfo(public_key) ==
    [public_key |-> public_key, endpoint |-> None, allowed_ips |-> <<>>,
     latest_handshake |-> None, transfer_rx |-> <<0, 0>>, transfer_tx |-> <<0, 0>>]

\* if let Some(p) = peer.take() { info.peers.push(p) }
PushPeer(info, peer) == [info EXCEPT !.peers = @ \o peer]

\* the arms of the match on (key, peer.as_mut()); st is [info, peer]
\* PublicKeyArm that does not look at the open peer
PublicKeyArm_always(st, val) == [st EXCEPT !.info.public_key = val]

PublicKeyArm(st, val) ==
    IF st.peer = <<>> THEN [st EXCEPT !.info.public_key = val] ELSE st

ListeningPortArm(st, val) == [st EXCEPT !.info.listen_port = ParseU16(val)]

PeerArm(st, val) == [info |-> PushPeer(st.info, st.peer), peer |-> <<NewPeerInfo(val)>>]

TransferArm(p, parts) ==
    [p EXCEPT !.transfer_rx = parse_bytes(parts[1]),
              !.transfer_tx = IF Len(parts) >= 2 THEN parse_bytes(parts[2]) ELSE @]

OpenPeerArm(st, key, val) ==
    IF st.peer = <<>> THEN st
    ELSE IF key = "endpoint" THEN [st EXCEPT !.peer[1].endpoint = val]
    ELSE IF key = "allowed ips" THEN [st EXCEPT !.peer[1].allowed_ips = SplitStr(val, ", ")]
    ELSE IF key = "latest handshake" THEN [st EXCEPT !.peer[1].latest_handshake = val]
    ELSE IF key = "transfer"
    THEN [st EXCEPT !.peer[1] = TransferArm(@, SplitStr(val, ", "))]
    ELSE st

\* one turn of the loop over output.lines().map(str::trim)
ParseWgLine(st, line) ==
    LET Arm(key, val) ==
            IF key = "public key" THEN PublicKeyArm(st, val)
            ELSE IF key = "listening port" THEN ListeningPortArm(st, val)
            ELSE IF key = "peer" THEN PeerArm(st, val)
            ELSE OpenPeerArm(st, key, val)
        OnPair(kv) == IF kv = <<>> THEN st ELSE Arm(kv[1], Trim(kv[2]))
    IN  OnPair(SplitOnce(line, ":"))

RECURSIVE ParseWgFrom(_, _, _)
ParseWgFrom(ls, i, st) ==
    IF i > Len(ls) THEN st
    ELSE \* the turn for line i is complete before the next line is read
         CHOOSE r \in {ParseWgFrom(ls, i + 1, after) :
                           after \in {ParseWgLine(st, Trim(ls[i]))}} : TRUE

\* after the loop: if let Some(p) = peer { info.peers.push(p) }
\* FinishParse that forgets the open peer
FinishParse_without_push(st) == st.info

FinishParse(st) == PushPeer(st.info, st.peer)

parse_wg_output(output) ==
    FinishParse(ParseWgFrom(Lines(output), 1, [info |-> DefaultInterfaceInfo, peer |-> <<>>]))

Init ==
    /\ dirExists \in BOOLEAN
    /\ \E present \in SUBSET (DOMAIN InitialFiles) :
          /\ (~dirExists) => present = {}
          /\ files = [n \in present |-> InitialFiles[n]]
          /\ \E running \in SUBSET present :
                ifaces = [n \in running |-> ConfigPeerKeys(InitialFiles[n])]
    /\ temps = NoEntries
    /\ keyCtr = 0
    /\ calls = <<>>
    /\ last = IdleOp
    /\ app = AppNew(World)

(***************************************************************************)
(* The operations of wireguard.rs, called with any arguments.              *)
(***************************************************************************)
CreateTunnel ==
    /\ IsIdle
    /\ \E draft \in ClientDrafts, o \in CreateOracles :
        LET Return(r) ==
                /\ WithinBounds(r.w)
                /\ SetWorld(r.w)
                /\ last' = LastOp("create_tunnel", Trim(draft.name), "", FALSE, draft, r.res,
                                  None, NoPeerConfig)
        IN  Return(create_tunnel(draft, World, o))
    /\ UNCHANGED app

CreateServerTunnel ==
    /\ IsIdle
    /\ \E draft \in ServerDrafts, o \in CreateOracles :
        LET Return(r) ==
                /\ WithinBounds(r.w)
                /\ SetWorld(r.w)
                /\ last' = LastOp("create_server_tunnel", Trim(draft.name), "", FALSE, draft,
                                  r.res, None, NoPeerConfig)
        IN  Return(create_server_tunnel(draft, World, o))
    /\ UNCHANGED app

ImportTunnel ==
    /\ IsIdle
    /\ \E path \in ImportPaths, o \in ImportOracles :
        LET Return(r) ==
                /\ WithinBounds(r.w)
                /\ SetWorld(r.w)
                /\ last' = LastOp("import_tunnel", "", path, FALSE, NoDraft, r.res, r.val,
                                  NoPeerConfig)
        IN  Return(import_tunnel(path, World, o))
    /\ UNCHANGED app

ExportTunnelsToZip ==
    /\ IsIdle
    /\ \E path \in ExportPaths, before \in {NoFile, OldArchive}, o \in ExportOracles :
        LET Return(r) ==
                /\ SetWorld(r.w)
                /\ last' = LastOp("export_tunnels_to_zip", "", path, FALSE, NoDraft, r.res,
                                  r.val, NoPeerConfig)
                           @@ [dest_before |-> before, dest_after |-> r.dest]
        IN  Return(export_tunnels_to_zip(path, World, o, before))
    /\ UNCHANGED app

DeleteTunnel ==
    /\ IsIdle
    /\ \E name \in TargetNames, is_active \in BOOLEAN, o \in DeleteOracles :
        LET Return(r) ==
                /\ SetWorld(r.w)
                /\ last' = LastOp("delete_tunnel", name, "", is_active, NoDraft, r.res, None,
                                  NoPeerConfig)
        IN  Return(delete_tunnel(name, is_active, World, o))
    /\ UNCHANGED app

AddServerPeer ==
    /\ IsIdle
    /\ keyCtr < MaxKeys
    /\ \E name \in TargetNames :
        LET Return(r) ==
                /\ SetWorld(r.w)
                /\ last' = LastOp("add_server_peer", name, "",
                                  is_interface_active(name, World), NoDraft, r.res, None,
                                  IF r.res = Ok THEN r.val ELSE NoPeerConfig)
            \* add_server_peer(name, World, o): what it reads from the file is
            \* the same whatever the external calls do afterwards
            Planned(plan) ==
                \E o \in AddPeerOracles : Return(PeerCommit(plan, name, World, o))
        IN  Planned(PeerPlan(name, World))
    /\ UNCHANGED app

WgQuick ==
    /\ IsIdle
    /\ \E action \in {"up", "down"}, name \in TargetNames, o \in WgQuickOracles :
        LET Return(r) ==
                /\ SetWorld(r.w)
                /\ last' = LastOp("wg_quick " \o action, name, "", FALSE, NoDraft, r.res, None,
                                  NoPeerConfig)
        IN  Return(wg_quick(action, name, World, o))
    /\ UNCHANGED app

\* the caller has taken the result: nothing is in flight
Idle ==
    /\ ~IsIdle
    /\ last' = IdleOp
    /\ calls' = <<>>
    /\ UNCHANGED <<dirExists, files, ifaces, temps, keyCtr, app>>

\* the configuration store: create, import, delete, bring up and down
Next ==
    \/ CreateTunnel
    \/ CreateServerTunnel
    \/ ImportTunnel
    \/ DeleteTunnel
    \/ ExportTunnelsToZip
    \/ WgQuick
    \/ Idle

Spec == Init /\ [][Next]_vars

\* adding peers to the server tunnel, whose interface goes up and down
InitPeer ==
    /\ dirExists = TRUE
    /\ files \in {PeerFiles, EdgeFiles, UnendedFiles}
                  \cup {[n \in {m} |-> RefusedFiles[m]] : m \in DOMAIN RefusedFiles}
    /\ \E running \in {{}, DOMAIN files} :
          ifaces = [n \in running |-> ConfigPeerKeys(files[n])]
    /\ temps = NoEntries
    /\ keyCtr = 0
    /\ calls = <<>>
    /\ last = IdleOp
    /\ app = AppNew(World)

NextPeer ==
    \/ AddServerPeer
    \/ WgQuick
    \/ Idle

SpecPeer == InitPeer /\ [][NextPeer]_vars

(***************************************************************************)
(* The application at the keyboard.                                        *)
(***************************************************************************)
Prefixes(text) == {SubSeq(text, 1, k) : k \in 0..Len(text)}

\* the texts the user types into the import prompt and into the wizards
ImportTexts == Prefixes("~/wg0.conf")

WizardTexts(field) ==
    IF field = "name" THEN {"wg" \o d \o x : d \in {"0", "1", "2"}, x \in {"", "/"}}
    ELSE IF field = "private_key" THEN Prefixes("k")
    ELSE IF field = "peer_public_key" THEN Prefixes("p")
    ELSE IF field = "endpoint" THEN Prefixes("e")
    ELSE {}

\* the keys that edit `text` into another of the texts of `allowed`
Typing(text, allowed) ==
    {CharAt(t, Len(t)) : t \in {u \in allowed : Len(u) > 0 /\ Pop(u) = text}}
    \cup (IF Len(text) > 0 /\ Pop(text) \in allowed THEN {"Backspace"} ELSE {})

\* the keys the user presses, given what is on the screen
KeysOffered(a) ==
    LET to == Dispatch(a)
    IN  IF to = "global" THEN {"Enter", "j", "k", "x", "a", "p", "r"}
        ELSE IF to \in {"confirm_delete", "confirm_full_tunnel"} THEN {"y", "n"}
        ELSE IF to = "add_menu" THEN {"i", "c", "s", "Esc"}
        ELSE IF to = "import_path"
        THEN {"Enter", "Esc"} \cup Typing(a.input_path, ImportTexts)
        ELSE IF to = "new_tunnel_wizard"
        THEN {"Enter", "Esc"}
             \cup Typing(current_value(a.new_tunnel), WizardTexts(StepField(a.new_tunnel)))
        ELSE IF to = "peer_endpoint_input" THEN {"Enter", "Esc"}
        ELSE IF to = "peer_dns_input"
        THEN {"Enter", "Esc"} \cup Typing(a.peer_dns_input, Prefixes("9"))
        ELSE IF to = "peer_config" THEN {"Esc", "q"}
        ELSE {}

\* the failures of the outside world that the key can meet
OraclesFor(a, key) ==
    LET to == Dispatch(a)
    IN  IF to = "confirm_delete" /\ key = "y" THEN DeleteOracles
        ELSE IF (to = "confirm_full_tunnel" /\ key = "y") \/ (to = "global" /\ key = "Enter")
        THEN WgQuickOracles
        ELSE IF to = "import_path" /\ key = "Enter" THEN ImportOracles
        ELSE IF to = "new_tunnel_wizard" /\ key = "Enter"
        THEN {Oracle(f) : f \in {None, "write_open"}}
        ELSE IF to = "add_menu" /\ key = "s" THEN {Oracle(f) : f \in {None, "genkey"}}
        ELSE IF to = "global" /\ key = "p"
        THEN {Oracle(f) : f \in {None, "syncconf", "write_open"}}
        ELSE {Oracle(None)}

\* handle_events with a key pressed: the key goes through handle_key.  What
\* the handler called outside is kept in calls, and the call of wireguard.rs
\* it made in last, until the loop is back at event::poll.
HandleKey ==
    /\ IsIdle
    /\ ~app.should_quit
    /\ \E key \in KeysOffered(app) :
          \E o \in OraclesFor(app, key) :
            LET Return(r) ==
                    /\ WithinBounds(r.w)
                    /\ r.w.keyCtr <= MaxAppKeys
                    /\ SetWorld([r.w EXCEPT !.calls = IF r.l.op # "idle" THEN @ ELSE <<>>])
                    /\ app' = r.a
                    /\ last' = IF r.l.op # "idle"
                               THEN LastOp(r.l.op, r.l.name, r.l.path, r.l.is_active,
                                           r.l.draft, r.l.res, None, r.l.peer)
                               ELSE IdleOp
            IN  Return(handle_key(app, World, key, o))

\* the event loop is back at event::poll: the next key can be handled
AwaitKey ==
    /\ ~IsIdle
    /\ last' = IdleOp
    /\ calls' = <<>>
    /\ UNCHANGED <<dirExists, files, ifaces, temps, keyCtr, app>>

InitApp ==
    /\ dirExists = TRUE
    /\ files = InitialFiles
    /\ ifaces = NoEntries
    /\ temps = NoEntries
    /\ keyCtr = 0
    /\ calls = <<>>
    /\ last = IdleOp
    /\ app = AppNew(World)

NextApp ==
    \/ HandleKey
    \/ AwaitKey

SpecApp == InitApp /\ [][NextApp]_vars

(***************************************************************************)
(* The application with every overlay within reach of the keys: the        *)
(* prompts keep the text they open with.                                   *)
(***************************************************************************)
\* the keys the user presses, given what is on the screen
UiKeysOffered(a) ==
    LET to == Dispatch(a)
    IN  IF to = "global"
        THEN {"Enter", "j", "k", "g", "G", "x", "a", "p", "e", "r", "?", "q"}
        ELSE IF to = "help" THEN {"z"}
        ELSE IF to \in {"confirm_delete", "confirm_full_tunnel"} THEN {"y", "n"}
        ELSE IF to = "add_menu" THEN {"i", "c", "s", "Esc"}
        ELSE IF to = "peer_config" THEN {"s", "q", "b", "Esc"}
        ELSE {"Enter", "Esc"}

\* the failures of the outside world that the key can meet
UiOraclesFor(a, key) ==
    LET to == Dispatch(a)
    IN  IF to = "peer_save_path" /\ key = "Enter"
        THEN {Oracle(f) : f \in {None, "save_exists", "save_write"}}
        ELSE IF to = "export_path" /\ key = "Enter"
        THEN {Oracle(f) : f \in {None, "create"}}
        ELSE OraclesFor(a, key)

\* handle_events with a key pressed, as HandleKey
PressKey ==
    /\ IsIdle
    /\ ~app.should_quit
    /\ \E key \in UiKeysOffered(app) :
          \E o \in UiOraclesFor(app, key) :
            LET Return(r) ==
                    /\ WithinBounds(r.w)
                    /\ r.w.keyCtr <= MaxAppKeys
                    /\ SetWorld([r.w EXCEPT !.calls = IF r.l.op # "idle" THEN @ ELSE <<>>])
                    /\ app' = r.a
                    /\ last' = IF r.l.op # "idle"
                               THEN LastOp(r.l.op, r.l.name, r.l.path, r.l.is_active,
                                           r.l.draft, r.l.res, None, r.l.peer)
                               ELSE IdleOp
            IN  Return(handle_key(app, World, key, o))

NextUi ==
    \/ PressKey
    \/ AwaitKey

SpecUi == InitApp /\ [][NextUi]_vars

(***************************************************************************)
(* The address allocator: next_peer_ipv4 called with any base and used     *)
(* set, suggest_server_address called on any directory.                    *)
(***************************************************************************)
\* the last octets the bases and the used sets of the model are built from
EdgeOctets == {0, 1, 2, 3, 4, 126, 128, 251, 252, 253, 254, 255}
AllocBases == {<<10, 0, 0, d>> : d \in {0, 1, 2, 3, 127, 252, 253, 254, 255}}

\* the hosts of 10.0.0.0/24 with the last octets S
HostsOf(S) == {<<10, 0, 0, c>> : c \in S}

\* used sets that hold at most two hosts, or all hosts but at most two, with
\* or without a host of another network
AllocUsedSets ==
    LET few == {S \in SUBSET EdgeOctets : Cardinality(S) <= 2}
    IN  {HostsOf(S) : S \in few}
        \cup {HostsOf((0..U8Max) \ S) : S \in few}
        \cup {HostsOf((0..U8Max) \ S) \cup {<<10, 0, 1, 2>>} : S \in few}

\* an Interface section with the addresses 10.0.i.1 for i in lo .. hi,
\* thirty-two to a line
RECURSIVE AddressLines(_, _)
AddressLines(lo, hi) ==
    IF lo > hi THEN ""
    ELSE "Address = "
         \o Join([k \in 1..(MinOf({lo + 31, hi}) - lo + 1) |->
                     "10.0." \o FmtInt(lo + k - 1) \o ".1/24"], ", ")
         \o "\n" \o AddressLines(lo + 32, hi)

ManyAddressesText(lo, hi) == "[Interface]\nPrivateKey = mkey=\n" \o AddressLines(lo, hi)

\* the directories suggest_server_address is called on
AllocDirs ==
    {NoEntries,
     InitialFiles,
     [n \in {"a"} |-> ClientConfigText("k=", "fd00::1/64, 10.0.1.1/16", "", "p=",
                                        "10.0.0.0/24", "e:1")],
     [n \in {"a", "b"} |->
         IF n = "a" THEN ServerConfigText("k=", "10.0.0.1/32,10.0.1.1", 51820, "eth0")
         ELSE "[interface]\naddress=10.0.3.1/8\n[Peer]\nAddress = 10.0.2.1/32\n"],
     [n \in {"many"} |-> ManyAddressesText(0, U8Max - 1)],
     [n \in {"most", "one"} |->
         IF n = "most" THEN ManyAddressesText(1, U8Max)
         ELSE ManyAddressesText(0, 0)]}

NextPeerIpv4 ==
    /\ IsIdle
    /\ \E base \in AllocBases, used \in AllocUsedSets :
          last' = [op |-> "next_peer_ipv4", base |-> base, used |-> used,
                   val |-> next_peer_ipv4(base, used)]
    /\ UNCHANGED <<dirExists, files, ifaces, temps, keyCtr, calls, app>>

SuggestServerAddress ==
    /\ IsIdle
    /\ last' = [op |-> "suggest_server_address", val |-> suggest_server_address(World)]
    /\ UNCHANGED <<dirExists, files, ifaces, temps, keyCtr, calls, app>>

InitAlloc ==
    /\ dirExists \in BOOLEAN
    /\ files \in AllocDirs
    /\ (~dirExists) => files = NoEntries
    /\ ifaces = NoEntries
    /\ temps = NoEntries
    /\ keyCtr = 0
    /\ calls = <<>>
    /\ last = IdleOp
    /\ app = AppNew(World)

NextAlloc ==
    \/ NextPeerIpv4
    \/ SuggestServerAddress
    \/ Idle

SpecAlloc == InitAlloc /\ [][NextAlloc]_vars

(***************************************************************************)
(* The status parser called on any text of up to three lines, and on       *)
(* longer texts as `wg show` prints them.                                  *)
(***************************************************************************)
StatusLines ==
    {"interface: wg0", "  public key: IPK=", "public key:IPK2=", "  listening port: 51820",
     "  listening port: abc", "listening port: 70000",
     "peer: P1=", "peer: P2=", "peer:", "Peer: P3=",
     "  endpoint: 192.0.2.7:51820", "  allowed ips: 10.0.0.2/32, 10.0.0.3/32",
     "  latest handshake: 1 minute, 2 seconds ago",
     "  transfer: 1.00 KiB received, 2.00 MiB sent",
     "", "no separator"}

MaxStatusLines == 3

\* the text whose lines are ls, each ended by a line feed
TextOf(ls) == Join([k \in 1..Len(ls) |-> ls[k] \o "\n"], "")

ShowTexts ==
    {TextOf(<<"interface: wg0", "  public key: IPK=", "  private key: (hidden)",
              "  listening port: 51820", "", "peer: P1=",
              "  endpoint: 192.0.2.7:51820", "  allowed ips: 10.0.0.2/32",
              "  latest handshake: 1 minute, 2 seconds ago",
              "  transfer: 1.50 KiB received, 3 GiB sent", "", "peer: P2=",
              "  allowed ips: (none)">>),
     "peer: P1=\r\n  public key: X=\r\n  listening port: x\r\npeer: P2=",
     TextOf(<<"listening port: 51820", "peer: P1=", "listening port: nine", "endpoint: e:1",
              "peer: P1=", "transfer: 1 kib received, -2 B sent, 3 B">>),
     TextOf(<<"peer : P4=", "listening port: 7", "peer: P5=", "transfer: 2 MiB received, 1 B sent",
              "transfer: 92 B received">>)}

StatusTexts ==
    {TextOf(ls) : ls \in UNION {[1..n -> StatusLines] : n \in 0..MaxStatusLines}}
    \cup ShowTexts

ParseWgOutput ==
    /\ IsIdle
    /\ \E text \in StatusTexts :
          last' = [op |-> "parse_wg_output", text |-> text, val |-> parse_wg_output(text)]
    /\ UNCHANGED <<dirExists, files, ifaces, temps, keyCtr, calls, app>>

\* the magnitudes parse_bytes is called on: decimal literals f64::from_str
\* accepts, a negative one, and tokens it rejects
ByteMagnitudes ==
    {"0", "1", "3", "92", "1.00", "2.00", "1.50", "0.25", "1023.99", "+4", ".5", "5.",
     "-2", "abc", "1.5.2", "1,5", ".", ""}

\* the units: the five of `wg show` in several cases, others, and none
ByteUnits ==
    {"B", "KiB", "MiB", "GiB", "TiB", "b", "kib", "KIB", "mIb", "gIB", "tib",
     "KB", "bytes", "PiB", "Ki", "iB", ""}

\* magnitude, white space and unit, and what `wg show` writes after them
ByteText(magnitude, gap, unit, suffix) ==
    magnitude \o (IF unit = "" THEN "" ELSE gap \o unit) \o suffix

ParseBytes ==
    /\ IsIdle
    /\ \E magnitude \in ByteMagnitudes, unit \in ByteUnits, gap \in {" ", "\t "},
          suffix \in {"", " received", " sent"} :
          last' = [op |-> "parse_bytes", magnitude |-> magnitude, unit |-> unit,
                   text |-> ByteText(magnitude, gap, unit, suffix),
                   val |-> parse_bytes(ByteText(magnitude, gap, unit, suffix))]
    /\ UNCHANGED <<dirExists, files, ifaces, temps, keyCtr, calls, app>>

InitStatus ==
    /\ dirExists = TRUE
    /\ files = NoEntries
    /\ ifaces = NoEntries
    /\ temps = NoEntries
    /\ keyCtr = 0
    /\ calls = <<>>
    /\ last = IdleOp
    /\ app = AppNew(World)

NextStatus ==
    \/ ParseWgOutput
    \/ ParseBytes
    \/ Idle

SpecStatus == InitStatus /\ [][NextStatus]_vars

(***************************************************************************)
(* The readers of the directory and of configuration texts, each called on *)
(* inputs of its own.                                                      *)
(***************************************************************************)
\* the file names a directory listing of the model is made of
DirEntryNames ==
    {"wg0.conf", "a.conf", "B.conf", "a.b.conf", "my vpn.conf",
     "wg0.conf.bak", "notes.txt", "conf", ".conf", "x.CONF", "aconf"}

\* number of entries of a directory listing
MaxDirEntries == 3

\* the listings: the names of different entries, in every order
DirListings ==
    {ns \in UNION {[1..n -> DirEntryNames] : n \in 0..MaxDirEntries} :
        \A i, j \in DOMAIN ns : i # j => ns[i] # ns[j]}

DiscoverTunnels ==
    /\ IsIdle
    /\ \E ok \in BOOLEAN, names \in DirListings :
          LET entries == [k \in DOMAIN names |-> CONFIG_DIR \o "/" \o names[k]]
          IN  last' = [op |-> "discover_tunnels", ok |-> ok, names |-> names,
                       entries |-> entries, val |-> DiscoverIn(ok, entries)]
    /\ UNCHANGED <<dirExists, files, ifaces, temps, keyCtr, calls, app>>

\* a line of a configuration text with what it is: the header of the
\* Interface section ("interface"), another header ("section"), a key = value
\* line ("pair") with its key in the spelling of wg-quick and its value, a
\* comment, or something else
ConfigLine(text, kind, key, value) == [text |-> text, kind |-> kind, key |-> key, value |-> value]

InterfaceLines ==
    {ConfigLine("[Interface]", "interface", "", ""),
     ConfigLine(" [interface] ", "interface", "", ""),
     ConfigLine("[Peer]", "section", "", ""),
     ConfigLine("PostUp = iptables -A FORWARD", "pair", "PostUp", "iptables -A FORWARD"),
     ConfigLine("postdown=x", "pair", "PostDown", "x"),
     ConfigLine("  SAVECONFIG = true", "pair", "SaveConfig", "true"),
     ConfigLine("PrivateKey = k1=", "pair", "PrivateKey", "k1="),
     ConfigLine("privatekey=  k2=  ", "pair", "PrivateKey", "k2="),
     ConfigLine("ListenPort = 51820", "pair", "ListenPort", "51820"),
     ConfigLine("PostUpX = 1", "pair", "PostUpX", "1"),
     ConfigLine("# PostUp = x", "comment", "", ""),
     ConfigLine("; PrivateKey = k3=", "comment", "", ""),
     ConfigLine("PostDown", "other", "", ""),
     ConfigLine("", "other", "", "")}

\* number of lines of a configuration text given to a reader
MaxConfigLines == 3

LinesFrom(set) == UNION {[1..n -> set] : n \in 0..MaxConfigLines}

ConfigText(lines) == TextOf([k \in DOMAIN lines |-> lines[k].text])

IsServerConfig ==
    /\ IsIdle
    /\ \E lines \in LinesFrom(InterfaceLines) :
          last' = [op |-> "is_server_config", lines |-> lines, text |-> ConfigText(lines),
                   val |-> is_server_config(ConfigText(lines))]
    /\ UNCHANGED <<dirExists, files, ifaces, temps, keyCtr, calls, app>>

ParseInterfaceValue ==
    /\ IsIdle
    /\ \E lines \in LinesFrom(InterfaceLines), key \in {"PrivateKey", "ListenPort"} :
          last' = [op |-> "parse_interface_value", lines |-> lines, key |-> key,
                   text |-> ConfigText(lines),
                   val |-> parse_interface_value(ConfigText(lines), key)]
    /\ UNCHANGED <<dirExists, files, ifaces, temps, keyCtr, calls, app>>

\* lines around AllowedIPs; the value of a pair is its list
TunnelLines ==
    {ConfigLine("[Interface]", "interface", "", <<>>),
     ConfigLine("[Peer]", "peer", "", <<>>),
     ConfigLine(" [peer]", "peer", "", <<>>),
     ConfigLine("AllowedIPs = 0.0.0.0/0, ::/0", "pair", "AllowedIPs", <<"0.0.0.0/0", "::/0">>),
     ConfigLine("AllowedIPs = 10.0.0.0/24", "pair", "AllowedIPs", <<"10.0.0.0/24">>),
     ConfigLine("allowedips=10.0.0.0/8 ,::/0", "pair", "AllowedIPs", <<"10.0.0.0/8", "::/0">>),
     ConfigLine("AllowedIPs = 10.0.0.0/0", "pair", "AllowedIPs", <<"10.0.0.0/0">>),
     ConfigLine("Address = 0.0.0.0/0", "pair", "Address", <<"0.0.0.0/0">>),
     ConfigLine("# AllowedIPs = 0.0.0.0/0", "comment", "", <<>>),
     ConfigLine("; AllowedIPs = ::/0", "comment", "", <<>>),
     ConfigLine("", "other", "", <<>>)}

\* is_full_tunnel_config once the file is read
IsFullTunnelConfig ==
    /\ IsIdle
    /\ \E lines \in LinesFrom(TunnelLines) :
          last' = [op |-> "is_full_tunnel_config", lines |-> lines, text |-> ConfigText(lines),
                   val |-> FullTunnelText(ConfigText(lines))]
    /\ UNCHANGED <<dirExists, files, ifaces, temps, keyCtr, calls, app>>

InitRead == InitStatus

NextRead ==
    \/ DiscoverTunnels
    \/ IsServerConfig
    \/ ParseInterfaceValue
    \/ IsFullTunnelConfig
    \/ Idle

SpecRead == InitRead /\ [][NextRead]_vars

(***************************************************************************)
(* Vocabulary of the properties.  These predicates say what the            *)
(* specification's words mean; they do not use the operators above that    *)
(* model the code's own checks.                                            *)
(***************************************************************************)
WhitespaceChars == {" ", "\t", "\n", "\r"}

\* the text is empty or contains white space or '/'
NameRejected(s) ==
    s = "" \/ \E i \in 1..Len(s) : CharAt(s, i) \in WhitespaceChars \cup {"/"}

\* the text is empty after trimming
BlankText(s) == \A i \in 1..Len(s) : CharAt(s, i) \in WhitespaceChars

\* a comma separated list with at least one element that is not blank
HasListItem(s) == \E i \in 1..Len(s) : CharAt(s, i) \notin WhitespaceChars \cup {","}

\* the text is the decimal notation of an integer of 0..65535
IsU16Literal(s) ==
    LET body == IF Len(s) > 0 /\ CharAt(s, 1) = "+" THEN SubSeq(s, 2, Len(s)) ELSE s
        n == Len(body)
        digit(i) == CHOOSE v \in 0..9 : Digits[v + 1] = CharAt(body, i)
        zeros == {i \in 1..n : \A j \in 1..i : CharAt(body, j) = "0"}
        lead == Cardinality(zeros)
        weight(i) == IF i = n THEN 1 ELSE IF i = n - 1 THEN 10 ELSE IF i = n - 2 THEN 100
                     ELSE IF i = n - 3 THEN 1000 ELSE 10000
        value == LET part[i \in lead..n] ==
                         IF i = lead THEN 0 ELSE part[i - 1] + digit(i) * weight(i)
                 IN  part[n]
    IN  /\ n > 0
        /\ \A i \in 1..n : \E v \in 0..9 : Digits[v + 1] = CharAt(body, i)
        /\ n - lead <= 5
        /\ value <= 65535

\* the results the specification calls Validation
ValidationErrors == {ErrNameRequired, ErrNameChars, ErrMissingFields, ErrListenPort}

RequiredClientFields == {"private_key", "address", "peer_public_key", "allowed_ips", "endpoint"}

ValidClientDraft(d) ==
    /\ ~NameRejected(Trim(d.name))
    /\ \A f \in RequiredClientFields \ {"allowed_ips"} : ~BlankText(d[f])
    /\ HasListItem(d.allowed_ips)

ValidServerDraft(d) ==
    /\ ~NameRejected(Trim(d.name))
    /\ \A f \in {"private_key", "address", "egress_interface"} : ~BlankText(d[f])
    /\ IsU16Literal(Trim(d.listen_port))

\* the operation that has just returned left the directory and its files as they were
DirectoryUnchanged == dirExists = last.pre.dir /\ files = last.pre.files

\* the position of the first call of that name in the log, 0 if there is none
FirstCall(cs, call) ==
    IF Called(cs, call) THEN MinOf({i \in 1..Len(cs) : cs[i].call = call}) ELSE 0

(***************************************************************************)
(* Properties of the configuration store (Spec).                           *)
(***************************************************************************)
\* C1: delete_tunnel(name, is_active = TRUE) calls `wg-quick down` before it
\* touches the file; if that fails the call returns that failure, the removal
\* is not attempted and the file is where it was.  With is_active = FALSE
\* `wg-quick down` is not called and the removal is the only call.
C1_DownBeforeRemove ==
    last.op = "delete_tunnel" =>
        IF last.is_active
        THEN /\ Len(calls) >= 1
             /\ calls[1].call = "wg-quick down" /\ calls[1].target = last.name
             /\ IF calls[1].ok
                THEN /\ Len(calls) = 2
                     /\ calls[2].call = "remove_file" /\ calls[2].target = last.name
                     /\ calls[2].ok => last.name \notin DOMAIN files
                ELSE /\ Len(calls) = 1
                     /\ last.res = "wg-quick down failed"
                     /\ DirectoryUnchanged
        ELSE /\ Len(calls) = 1
             /\ calls[1].call = "remove_file" /\ calls[1].target = last.name
             /\ (calls[1].ok <=> last.res = Ok)
             /\ calls[1].ok => last.name \notin DOMAIN files
             /\ ifaces = last.pre.ifaces

\* an active tunnel whose bring-down failed: the file is still there
C1_Witness ==
    /\ last.op = "delete_tunnel"
    /\ last.is_active
    /\ last.name \in DOMAIN last.pre.ifaces
    /\ last.res = "wg-quick down failed"
    /\ last.name \in DOMAIN files

\* C6: every tunnel discover_tunnels returns has a name that no other tunnel
\* of the list has and that contains no white space and no '/'.
C6_DiscoveredNamesValid ==
    LET ts == discover_tunnels(World)
    IN  \A i \in 1..Len(ts) :
            /\ ~NameRejected(ts[i].name)
            /\ \A j \in 1..Len(ts) : i # j => ts[i].name # ts[j].name

\* C7 as the specification words it: create_tunnel with a name that is empty
\* or contains white space or '/', or with a required field that is empty
\* after trimming, fails with Validation, calls nothing and changes nothing.
C7_AsWritten ==
    (/\ last.op = "create_tunnel"
     /\ \/ NameRejected(last.draft.name)
        \/ \E f \in RequiredClientFields : BlankText(last.draft[f]))
    => /\ last.res \in ValidationErrors
       /\ calls = <<>>
       /\ DirectoryUnchanged

\* C7: create_tunnel with a name that after trimming is empty or contains
\* white space or '/', or with a required field that is empty after trimming,
\* fails with Validation, makes no call to the file system (neither the
\* creation of the directory, nor the look for the existing file, nor a
\* write) and leaves the directory as it was, also when the name is taken.
C7_ValidationBeforeWrite ==
    (/\ last.op = "create_tunnel"
     /\ \/ NameRejected(Trim(last.draft.name))
        \/ \E f \in RequiredClientFields : BlankText(last.draft[f]))
    => /\ last.res \in ValidationErrors
       /\ calls = <<>>
       /\ DirectoryUnchanged

\* a draft with a taken name and a blank field: Validation, not AlreadyExists
C7_Witness ==
    /\ last.op = "create_tunnel"
    /\ Trim(last.draft.name) \in DOMAIN last.pre.files
    /\ BlankText(last.draft.peer_public_key)
    /\ last.res = ErrMissingFields

\* C8: create_tunnel and create_server_tunnel with a valid draft whose name
\* has a file in the directory fail with AlreadyExists and leave every file
\* as it was.
C8_NoOverwrite ==
    (/\ last.op \in {"create_tunnel", "create_server_tunnel"}
     /\ IF last.op = "create_tunnel" THEN ValidClientDraft(last.draft)
                                     ELSE ValidServerDraft(last.draft)
     /\ last.pre.dir
     /\ Trim(last.draft.name) \in DOMAIN last.pre.files)
    => /\ last.res = ErrAlreadyExists(Trim(last.draft.name))
       /\ DirectoryUnchanged

\* a valid client draft meets an imported file of its name, whose text is not
\* the text the draft would have written
C8_Witness ==
    /\ last.op = "create_tunnel"
    /\ ValidClientDraft(last.draft)
    /\ last.res = ErrAlreadyExists("wg0")
    /\ "wg0" \in DOMAIN files
    /\ files["wg0"] = SourceFiles["/root/wg0.conf"]

\* C9: create_server_tunnel changes the directory only if the trimmed listen
\* port is the decimal notation of an integer of 0..65535; with any other
\* port it fails with Validation and nothing is created.
C9_ListenPortU16 ==
    last.op = "create_server_tunnel" =>
        /\ ~DirectoryUnchanged => IsU16Literal(Trim(last.draft.listen_port))
        /\ ~IsU16Literal(Trim(last.draft.listen_port)) =>
              /\ last.res \in ValidationErrors
              /\ calls = <<>>
              /\ DirectoryUnchanged

\* the port 65536 on an otherwise valid draft whose name is free
C9_Witness ==
    /\ last.op = "create_server_tunnel"
    /\ last.draft.listen_port = "65536"
    /\ Trim(last.draft.name) \notin DOMAIN last.pre.files
    /\ last.res = ErrListenPort

\* C10 as the specification words it: import_tunnel(path), when the directory
\* holds a file of the stem of the source, fails with AlreadyExists and
\* leaves that file as it was.
C10_AsWritten ==
    (/\ last.op = "import_tunnel"
     /\ last.pre.dir
     /\ FileStem(expand_path(last.path)) \in DOMAIN last.pre.files)
    => /\ last.res = ErrAlreadyExists(FileStem(expand_path(last.path)))
       /\ DirectoryUnchanged

\* C10: import_tunnel(path), when the directory holds a file of the stem of
\* the source, leaves every file as it was; it fails with AlreadyExists when
\* the source exists and has the extension conf, and with the error of the
\* missing source or of the extension otherwise.
C10_ImportCollision ==
    (/\ last.op = "import_tunnel"
     /\ last.pre.dir
     /\ FileStem(expand_path(last.path)) \in DOMAIN last.pre.files)
    => /\ DirectoryUnchanged
       /\ last.res =
            IF ~PathExists(expand_path(last.path), last.pre)
            THEN "Source file does not exist"
            ELSE IF Extension(expand_path(last.path)) # "conf"
            THEN "File must have .conf extension"
            ELSE ErrAlreadyExists(FileStem(expand_path(last.path)))

\* the import of ~/wg0.conf meets a file wg0.conf of another text
C10_Witness ==
    /\ last.op = "import_tunnel"
    /\ last.path = "~/wg0.conf"
    /\ last.res = ErrAlreadyExists("wg0")
    /\ files["wg0"] # SourceFiles["/root/wg0.conf"]

(***************************************************************************)
(* Properties of add_server_peer (SpecPeer).                               *)
(***************************************************************************)
\* the steps of the live resync and of the write of the configuration file
ResyncSteps == {"temp_conf", "strip", "temp_stripped", "syncconf"}
PersistSteps == ResyncSteps \cup {"write"}

\* C2: if add_server_peer on an active interface fails at a step of the
\* sequence write the temporary file, strip, reconcile, persist, the files of
\* the directory and the peer sets of the interfaces are as they were before
\* the call.
C2_FailureLeavesNoTrace ==
    (/\ last.op = "add_server_peer"
     /\ last.is_active
     /\ last.res # Ok
     /\ \E i \in 1..Len(calls) : calls[i].call \in PersistSteps /\ ~calls[i].ok)
    => /\ files = last.pre.files
       /\ ifaces = last.pre.ifaces

\* C3: add_server_peer on an active interface writes the configuration file
\* only after `wg syncconf` succeeded, and the interface then has the peers
\* of the updated text; on an interface that is not active it calls no step
\* of the resync and only writes the file.  A successful call leaves the old
\* text followed by a [Peer] block with the new public key in the file.
C3_ResyncThenPersist ==
    last.op = "add_server_peer" =>
        /\ last.is_active =>
              /\ Called(calls, "write") =>
                    /\ CalledOk(calls, "syncconf")
                    /\ FirstCall(calls, "syncconf") < FirstCall(calls, "write")
              /\ CalledOk(calls, "syncconf") =>
                    ifaces[last.name] =
                        ConfigPeerKeys(last.pre.files[last.name])
                            \cup {PubKeyOf(PrivKey(keyCtr))}
              /\ last.res = Ok => CalledOk(calls, "syncconf")
        /\ ~last.is_active =>
              /\ \A i \in 1..Len(calls) : calls[i].call \notin ResyncSteps
              /\ ifaces = last.pre.ifaces
        /\ last.res = Ok =>
              /\ CalledOk(calls, "write")
              /\ StartsWith(files[last.name], last.pre.files[last.name])
              /\ PubKeyOf(PrivKey(keyCtr)) \notin ConfigPeerKeys(last.pre.files[last.name])
              /\ ConfigPeerKeys(files[last.name]) =
                    ConfigPeerKeys(last.pre.files[last.name]) \cup {PubKeyOf(PrivKey(keyCtr))}
              /\ \A n \in DOMAIN files \ {last.name} : files[n] = last.pre.files[n]

\* a peer was added to the active server: resynced, then written
C3_Witness ==
    /\ last.op = "add_server_peer"
    /\ last.is_active
    /\ last.res = Ok
    /\ CalledOk(calls, "syncconf")
    /\ FirstCall(calls, "syncconf") < FirstCall(calls, "write")
    /\ files[last.name] # last.pre.files[last.name]

(***************************************************************************)
(* Properties of the application at the keyboard (SpecApp).                *)
(***************************************************************************)
\* the operations of wireguard.rs that the key handlers call to change the outside
LifecycleOps ==
    {"wg_quick up", "wg_quick down", "delete_tunnel", "import_tunnel", "create_tunnel",
     "create_server_tunnel", "add_server_peer"}

\* the names the tunnel list shows
ListedNames == {app.tunnels[k].name : k \in 1..Len(app.tunnels)}

\* C4: when the handler of a key has called a lifecycle operation (bring up
\* or down, delete, import, create, add a peer), whether that call succeeded
\* or failed, the last thing the handler did before the loop takes the next
\* key was to read the directory again and rebuild the tunnel list.
C4_RefreshAfterEveryAction ==
    last.op \in LifecycleOps =>
        /\ Len(calls) > 0
        /\ calls[Len(calls)].call = "read_dir"

\* C5: while the application waits for the next key, the tunnel list holds
\* exactly the names of the .conf files of the configuration directory, each
\* once, and is_active of each entry says whether its interface is up.
C5_ViewMatchesWorld ==
    IsIdle =>
        /\ ListedNames = DOMAIN files
        /\ Len(app.tunnels) = Cardinality(DOMAIN files)
        /\ \A k \in 1..Len(app.tunnels) :
              app.tunnels[k].is_active <=> app.tunnels[k].name \in DOMAIN ifaces

(***************************************************************************)
(* More properties of import_tunnel (Spec).                                *)
(***************************************************************************)
\* C11: import_tunnel(path) of a source that does not exist or whose
\* extension is not conf fails and leaves the directory as it was; when it
\* returns Ok the value is the file stem of the source, the directory holds
\* the files it held and <stem>.conf with the text of the source, and the
\* source reads as before.
C11_ImportContract ==
    last.op = "import_tunnel" =>
        /\ (\/ ~PathExists(expand_path(last.path), last.pre)
            \/ Extension(expand_path(last.path)) # "conf")
           => (last.res # Ok /\ DirectoryUnchanged)
        /\ last.res = Ok =>
              /\ last.val = FileStem(expand_path(last.path))
              /\ last.val \notin DOMAIN last.pre.files
              /\ files = Put(last.pre.files, last.val,
                             ReadPath(expand_path(last.path), last.pre))
              /\ ReadPath(expand_path(last.path), World)
                   = ReadPath(expand_path(last.path), last.pre)

\* the import of " /tmp/my vpn.conf " wrote `my vpn.conf` with the text of the source
C11_Witness ==
    /\ last.op = "import_tunnel"
    /\ last.path = " /tmp/my vpn.conf "
    /\ last.res = Ok
    /\ last.val = "my vpn"
    /\ files["my vpn"] = SourceFiles["/tmp/my vpn.conf"]

\* the import of /tmp/notes.txt was refused for its extension
C11_WitnessRefused ==
    /\ last.op = "import_tunnel"
    /\ last.path = "/tmp/notes.txt"
    /\ last.res = "File must have .conf extension"

(***************************************************************************)
(* More properties of add_server_peer (SpecPeer).                          *)
(***************************************************************************)
\* every host 1 .. 254 of the /24 of base is in used
FullyOccupied(base, used) ==
    \A c \in 1..(U8Max - 1) : <<base[1], base[2], base[3], c>> \in used

\* the call left no trace: no external call was made (no key generated, no
\* resync), and the directory, the interfaces and the temporary files are
\* as they were
NoTrace ==
    /\ calls = <<>>
    /\ keyCtr = last.pre.keyCtr
    /\ DirectoryUnchanged
    /\ ifaces = last.pre.ifaces
    /\ temps = last.pre.temps

\* the text, before the call, of the tunnel add_server_peer was called on
TargetText == last.pre.files[last.name]

\* C12: add_server_peer on a configuration that is not a server config, or
\* that has no IPv4 Interface address, or whose /24 is fully occupied, fails
\* with the message of that case, generates no key, runs no resync and
\* leaves the files as they were.
C12_EarlyFailureLeavesNoTrace ==
    LET Occupied(text, base) == FullyOccupied(base, UsedAddresses(base, text))
        Cases(text, server, first) ==
            /\ ~server
               => (last.res = "Selected tunnel is not a server config" /\ NoTrace)
            /\ (server /\ first = None)
               => (last.res = "Server config has no IPv4 address" /\ NoTrace)
            /\ (/\ server
                /\ first # None
                /\ parse_interface_value(text, "PrivateKey") # None
                /\ parse_interface_value(text, "ListenPort") # None
                /\ ParseU16(parse_interface_value(text, "ListenPort")) # NoInt
                /\ Occupied(text, parse_ipv4_address(first)))
               => (last.res = "No available peer address in the server /24" /\ NoTrace)
    IN  (last.op = "add_server_peer" /\ last.pre.dir /\ last.name \in DOMAIN last.pre.files) =>
            Cases(TargetText, is_server_config(TargetText),
                  FirstIpv4(parse_interface_addresses(TargetText)))

\* the full server, running, was asked for a peer and refused
C12_Witness ==
    /\ last.op = "add_server_peer"
    /\ last.name = "full"
    /\ last.is_active
    /\ last.res = "No available peer address in the server /24"
    /\ files["full"] = FullServerText

\* the client configuration and the IPv6 server were refused
C12_WitnessNotServer ==
    /\ last.op = "add_server_peer"
    /\ last.name = "wg0"
    /\ last.res = "Selected tunnel is not a server config"
C12_WitnessNoIpv4 ==
    /\ last.op = "add_server_peer"
    /\ last.name = "srv6"
    /\ last.res = "Server config has no IPv4 address"

\* the IPv4 hosts of the AllowedIPs of the [Peer] sections, in file order
PeerHosts(content) ==
    LET IsHost(h) == h # <<>>
        Parsed(allowed) == [k \in 1..Len(allowed) |-> parse_ipv4_address(allowed[k])]
    IN  SelectSeq(Parsed(parse_peer_allowed_ips(content)), IsHost)

\* the server's own address: the first IPv4 Interface address, <<>> if none
ServerAddress(content) ==
    parse_ipv4_address(FirstIpv4(parse_interface_addresses(content)))

\* no two positions of the sequence hold the same value
PairwiseDistinct(hs) == Cardinality({hs[k] : k \in 1..Len(hs)}) = Len(hs)

\* C13: after any sequence of add_server_peer calls, failed or not, on
\* servers whose peer addresses were pairwise distinct and different from
\* the server's address, the IPv4 hosts of the Peer AllowedIPs of every
\* server configuration on disk are pairwise distinct and none is the
\* server's own Interface address.
C13_PeerAddressesDistinct ==
    LET Distinct(hs, address) ==
            /\ PairwiseDistinct(hs)
            /\ \A k \in 1..Len(hs) : hs[k] # address
    IN  \A n \in DOMAIN files :
            is_server_config(files[n]) =>
                \E hs \in {PeerHosts(files[n])}, address \in {ServerAddress(files[n])} :
                    Distinct(hs, address)

\* two peers were added to the server at 10.0.0.254: after 255 and 0 are
\* passed over and 1 and 3 found used, they hold 10.0.0.2 and 10.0.0.4
C13_Witness ==
    /\ last.op = "add_server_peer"
    /\ last.name = "edge"
    /\ last.res = Ok
    /\ "edge" \in DOMAIN files
    /\ PeerHosts(files["edge"])
         = << <<10, 0, 0, 1>>, <<10, 0, 0, 3>>, <<10, 0, 0, 2>>, <<10, 0, 0, 4>> >>

(***************************************************************************)
(* Properties of the address allocator (SpecAlloc).                        *)
(***************************************************************************)
\* next_peer_ipv4 has returned an address
Allocated == last.op = "next_peer_ipv4" /\ last.val # <<>>

\* C14: an address returned by next_peer_ipv4(base, used) is not in used,
\* has the first three octets of base, and its last octet is neither 0 nor 255.
C14_AllocatedIsFreeHost ==
    Allocated =>
        /\ last.val \notin last.used
        /\ \A k \in 1..3 : last.val[k] = last.base[k]
        /\ last.val[4] \notin {0, U8Max}

\* all hosts but 10.0.0.0 and 10.0.0.3 are used and the base is 10.0.0.254:
\* 255 and 0 are passed over, 0 although it is not in used, and 3 is returned
C14_Witness ==
    /\ Allocated
    /\ last.base = <<10, 0, 0, 254>>
    /\ last.used = HostsOf((0..U8Max) \ {0, 3})
    /\ last.val = <<10, 0, 0, 3>>

\* the last octets next_peer_ipv4(base, used) looks at and does not pass
\* over, and those of them that are free and above the last octet of base
ScannedOctets(base) == {Candidate(base[4], step) : step \in 1..LastStep} \ {0, U8Max}
HigherFree(base, used) ==
    {c \in ScannedOctets(base) :
        c > base[4] /\ <<base[1], base[2], base[3], c>> \notin used}

\* the number of steps from the last octet of base up to the octet c, around 255
StepsTo(base, c) == (c - base[4] + U8Mod) % U8Mod

\* C15: next_peer_ipv4(base, used) returns the first candidate, counting up
\* from the last octet of base plus one, that is not passed over and not in
\* used.  If a scanned octet above that of base is free the result is the
\* least such octet; an octet below that of base is returned only when no
\* scanned octet above it is free.
C15_FirstFreeAscending ==
    last.op = "next_peer_ipv4" =>
        /\ HigherFree(last.base, last.used) # {}
           => (Allocated /\ last.val[4] = MinOf(HigherFree(last.base, last.used)))
        /\ (Allocated /\ last.val[4] < last.base[4])
           => HigherFree(last.base, last.used) = {}
        /\ Allocated =>
              /\ StepsTo(last.base, last.val[4]) \in 1..LastStep
              /\ \A t \in 1..(StepsTo(last.base, last.val[4]) - 1) :
                    \/ (last.base[4] + t) % U8Mod \in {0, U8Max}
                    \/ <<last.base[1], last.base[2], last.base[3],
                          (last.base[4] + t) % U8Mod>> \in last.used

\* base 10.0.0.3 with 10.0.0.2 and 10.0.0.126 free: 126 is returned, not 2
C15_Witness ==
    /\ Allocated
    /\ last.base = <<10, 0, 0, 3>>
    /\ last.used = HostsOf((0..U8Max) \ {2, 126})
    /\ last.val = <<10, 0, 0, 126>>

\* base 10.0.0.252 with only 10.0.0.1 free: the scan goes around and returns 1
C15_WitnessAround ==
    /\ Allocated
    /\ last.base = <<10, 0, 0, 252>>
    /\ last.used = HostsOf((0..U8Max) \ {1})
    /\ last.val = <<10, 0, 0, 1>>

\* C16 as the specification words it: the last octet of an address returned
\* by next_peer_ipv4 lies in 1 .. 253.
C16_AsWritten == Allocated => last.val[4] \in 1..LastStep

\* C16: the last octet of an address returned by next_peer_ipv4 lies in
\* 1 .. 254; it is the last octet of base plus a step in 1 .. 253, around 255.
C16_OctetRange ==
    Allocated =>
        /\ last.val[4] \in 1..(U8Max - 1)
        /\ \E step \in 1..LastStep : last.val[4] = (last.base[4] + step) % U8Mod

\* base 10.0.0.1 with only 10.0.0.254 free: step 253 returns 254
C16_Witness ==
    /\ Allocated
    /\ last.base = <<10, 0, 0, 1>>
    /\ last.used = HostsOf((0..U8Max) \ {254})
    /\ last.val = <<10, 0, 0, 254>>

\* the IPv4 hosts, prefix length dropped, of the Address entries of the
\* Interface sections of the files of the directory
InterfaceHosts ==
    LET Entries(addrs) == {parse_ipv4_address(addrs[k]) : k \in 1..Len(addrs)} \ {<<>>}
    IN  IF dirExists
        THEN UNION {Entries(parse_interface_addresses(files[n])) : n \in DOMAIN files}
        ELSE {}

\* C17: suggest_server_address returns 10.0.i.1/32 for the least i in
\* 0 .. 255 such that 10.0.i.1 is not the IPv4 host of an Interface Address
\* entry of a discovered tunnel, and 10.0.0.1/32 when all 256 are such hosts;
\* it always returns an address.
C17_SuggestFirstUnused ==
    LET Suggested(free) ==
            IF free = {} THEN last.val = "10.0.0.1/32"
            ELSE last.val = "10.0." \o FmtInt(MinOf(free)) \o ".1/32"
        Unused(hosts) == {i \in 0..U8Max : <<10, 0, i, 1>> \notin hosts}
    IN  last.op = "suggest_server_address" => Suggested(Unused(InterfaceHosts))

\* 10.0.0.1 and 10.0.1.1 are Interface addresses, written without a space
\* and without a prefix, 10.0.3.1 is one of another file and 10.0.2.1 stands
\* in a Peer section: 10.0.2.1/32 is suggested
C17_Witness ==
    /\ last.op = "suggest_server_address"
    /\ DOMAIN files = {"a", "b"}
    /\ last.val = "10.0.2.1/32"

\* the two files hold all 256 candidates between them: the fallback is returned
C17_WitnessFallback ==
    /\ last.op = "suggest_server_address"
    /\ DOMAIN files = {"most", "one"}
    /\ Cardinality(InterfaceHosts) = U8Mod
    /\ last.val = "10.0.0.1/32"

\* only 10.0.255.1 is left
C17_WitnessLast ==
    /\ last.op = "suggest_server_address"
    /\ DOMAIN files = {"many"}
    /\ last.val = "10.0.255.1/32"

(***************************************************************************)
(* Properties of the status parser (SpecStatus).                           *)
(***************************************************************************)
\* a line, trimmed, whose text before the first colon is key; its value
IsKeyLine(line, key) == StartsWith(line, key \o ":")
ValueOf(line, key) == Trim(SubSeq(line, Len(key) + 2, Len(line)))
IsPeerLine(line) == IsKeyLine(line, "peer")

TrimmedLines(text) ==
    LET Each(ls) == [k \in 1..Len(ls) |-> Trim(ls[k])]
    IN  Each(Lines(text))

\* what parse_wg_output returns for the first i lines of ls
ParsedUpTo(ls, i) == parse_wg_output(TextOf(SubSeq(ls, 1, i)))

\* C18: for a text with N `peer:` lines parse_wg_output returns N peers, in
\* the order of those lines, each with the key of its own line; the last
\* peer is among them, and none is returned for a text without such a line.
C18_OnePeerPerPeerLine ==
    LET Matches(peers, pl) ==
            /\ Len(peers) = Len(pl)
            /\ \A k \in 1..Len(pl) : peers[k].public_key = ValueOf(pl[k], "peer")
    IN  last.op = "parse_wg_output" =>
            Matches(last.val.peers, SelectSeq(TrimmedLines(last.text), IsPeerLine))

\* two peer lines, the second the last line of the text and not ended by a
\* line feed: both peers are returned, in order
C18_Witness ==
    /\ last.op = "parse_wg_output"
    /\ last.text = "peer: P1=\r\n  public key: X=\r\n  listening port: x\r\npeer: P2="
    /\ Len(last.val.peers) = 2
    /\ last.val.peers[1].public_key = "P1="
    /\ last.val.peers[2].public_key = "P2="

\* a text without a peer line gives no peer
C18_WitnessNoPeer ==
    /\ last.op = "parse_wg_output"
    /\ last.text = TextOf(<<"  public key: IPK=", "  endpoint: 192.0.2.7:51820", "Peer: P3=">>)
    /\ last.val.peers = <<>>

\* the keys of the lines that describe the open peer
PeerFieldKeys == {"endpoint", "allowed ips", "latest handshake", "transfer"}

\* the peer after differs from the peer before at most in the field of key
OnlyFieldChanged(before, after, key, val) ==
    IF key = "endpoint" THEN after = [before EXCEPT !.endpoint = val]
    ELSE IF key = "allowed ips" THEN after = [before EXCEPT !.allowed_ips = SplitStr(val, ", ")]
    ELSE IF key = "latest handshake" THEN after = [before EXCEPT !.latest_handshake = val]
    ELSE after = [before EXCEPT !.transfer_rx = after.transfer_rx,
                                !.transfer_tx = after.transfer_tx]

\* C19: a `public key:` line sets the interface key while no peer line came
\* before it and changes nothing after one; an endpoint, allowed ips, latest
\* handshake or transfer line changes nothing before the first peer line,
\* and after a peer line it changes that field of the last peer only.
C19_LinesActOnOpenPeerOnly ==
    LET OnLine(line, open, before, after) ==
            /\ IsKeyLine(line, "public key") =>
                  after = IF open THEN before
                          ELSE [before EXCEPT !.public_key = ValueOf(line, "public key")]
            /\ \A key \in PeerFieldKeys :
                  IsKeyLine(line, key) =>
                      IF ~open THEN after = before
                      ELSE /\ after.public_key = before.public_key
                           /\ after.listen_port = before.listen_port
                           /\ Len(after.peers) = Len(before.peers)
                           /\ \A k \in 1..(Len(before.peers) - 1) :
                                 after.peers[k] = before.peers[k]
                           /\ OnlyFieldChanged(before.peers[Len(before.peers)],
                                               after.peers[Len(after.peers)],
                                               key, ValueOf(line, key))
        Each(ls) ==
            \A i \in 1..Len(ls) :
                (\E key \in PeerFieldKeys \cup {"public key"} : IsKeyLine(Trim(ls[i]), key)) =>
                    \E before \in {ParsedUpTo(ls, i - 1)}, after \in {ParsedUpTo(ls, i)} :
                        OnLine(Trim(ls[i]), \E j \in 1..(i - 1) : IsPeerLine(Trim(ls[j])),
                               before, after)
    IN  last.op = "parse_wg_output" => \E ls \in {Lines(last.text)} : Each(ls)

\* a public key line after a peer line left both keys alone, and an endpoint
\* line before the peer line left no trace
C19_Witness ==
    /\ last.op = "parse_wg_output"
    /\ last.text = TextOf(<<"  endpoint: 192.0.2.7:51820", "peer: P1=", "public key:IPK2=">>)
    /\ last.val = [DefaultInterfaceInfo EXCEPT !.peers = <<NewPeerInfo("P1=")>>]

\* C20: a `listening port:` line whose value is not a port leaves the listen
\* port as it was before the line.
C20_BadPortLineIgnored ==
    LET OnLine(line, before, after) ==
            (/\ IsKeyLine(line, "listening port")
             /\ ParseU16(ValueOf(line, "listening port")) = NoInt)
            => after.listen_port = before.listen_port
        Each(ls) ==
            \A i \in 1..Len(ls) :
                OnLine(Trim(ls[i]), ParsedUpTo(ls, i - 1), ParsedUpTo(ls, i))
    IN  last.op = "parse_wg_output" => Each(Lines(last.text))

\* the magnitudes that are decimal numbers not below zero, in hundredths
HundredthsOf ==
    [m \in {"0", "1", "3", "92", "1.00", "2.00", "1.50", "0.25", "1023.99", "+4", ".5", "5."} |->
        CASE m = "0" -> 0          [] m = "1" -> 100       [] m = "3" -> 300
          [] m = "92" -> 9200      [] m = "1.00" -> 100    [] m = "2.00" -> 200
          [] m = "1.50" -> 150     [] m = "0.25" -> 25     [] m = "1023.99" -> 102399
          [] m = "+4" -> 400       [] m = ".5" -> 50       [] m = "5." -> 500]

\* the tokens that are no number
UnparsableMagnitudes == {"abc", "1.5.2", "1,5", ".", ""}

\* the power of 1024 each unit stands for, in whatever case it is written
UnitPower ==
    [u \in {"B", "KiB", "MiB", "GiB", "TiB", "b", "kib", "KIB", "mIb", "gIB", "tib"} |->
        CASE u \in {"B", "b"} -> 0
          [] u \in {"KiB", "kib", "KIB"} -> 1
          [] u \in {"MiB", "mIb"} -> 2
          [] u \in {"GiB", "gIB"} -> 3
          [] u \in {"TiB", "tib"} -> 4]

\* long division by 100 of a number written in digits of base 1024, the
\* most significant first
RECURSIVE QuotientDigits(_, _, _)
QuotientDigits(digits, i, rem) ==
    IF i > Len(digits) THEN <<>>
    ELSE <<(rem * 1024 + digits[i]) \div 100>>
         \o QuotientDigits(digits, i + 1, (rem * 1024 + digits[i]) % 100)

RECURSIVE DigitsValue(_, _)
DigitsValue(digits, n) == IF n = 0 THEN 0 ELSE DigitsValue(digits, n - 1) * 1024 + digits[n]

\* the whole part of (h / 100) * 1024^k, as the pair hi, lo of hi * 2^20 + lo
WholeOfProduct(h, k) ==
    LET q == QuotientDigits(<<h \div 1024, h % 1024>> \o [i \in 1..k |-> 0], 1, 0)
        n == Len(q)
    IN  <<DigitsValue(q, n - 2), q[n - 1] * 1024 + q[n]>>

\* C21: the byte count of a magnitude and a unit is the magnitude times 1,
\* 1024, 1024^2, 1024^3, 1024^4 for B, KiB, MiB, GiB, TiB in any case, cut to
\* a whole number; an unparsable magnitude, a missing unit or an unknown unit
\* gives 0; and on an open peer the line
\* `transfer: 1.00 KiB received, 2.00 MiB sent` gives (1024, 2097152).
C21_ByteUnits ==
    LET Example(ls) ==
            \A i \in 1..Len(ls) :
                (/\ Trim(ls[i]) = "transfer: 1.00 KiB received, 2.00 MiB sent"
                 /\ \E j \in 1..(i - 1) : IsPeerLine(Trim(ls[j])))
                => LET peers == ParsedUpTo(ls, i).peers
                   IN  /\ peers[Len(peers)].transfer_rx = <<0, 1024>>
                       /\ peers[Len(peers)].transfer_tx = <<2, 0>>
    IN  /\ last.op = "parse_bytes" =>
            /\ (last.magnitude \in DOMAIN HundredthsOf /\ last.unit \in DOMAIN UnitPower)
               => last.val = WholeOfProduct(HundredthsOf[last.magnitude], UnitPower[last.unit])
            /\ (last.magnitude \in UnparsableMagnitudes \/ last.unit \notin DOMAIN UnitPower)
               => last.val = <<0, 0>>
        /\ last.op = "parse_wg_output" => Example(Lines(last.text))

\* 2.00 of the unit written mIb are 2097152 bytes
C21_Witness ==
    /\ last.op = "parse_bytes"
    /\ last.magnitude = "2.00"
    /\ last.unit = "mIb"
    /\ last.text = "2.00\t mIb sent"
    /\ last.val = <<2, 0>>

(***************************************************************************)
(* Properties of SpecRead.                                                 *)
(***************************************************************************)
\* the stem of each file name whose extension is conf, None for the others:
\* `.conf` is a hidden file without extension, CONF is another extension
ConfStemOf ==
    [n \in DirEntryNames |->
        CASE n = "wg0.conf" -> "wg0"
          [] n = "a.conf" -> "a"
          [] n = "B.conf" -> "B"
          [] n = "a.b.conf" -> "a.b"
          [] n = "my vpn.conf" -> "my vpn"
          [] OTHER -> None]

\* C22: discover_tunnels returns one tunnel for each directory entry with
\* extension conf, named by the stem and pointing at the entry, and no other
\* tunnel; the names ascend whatever the order of the listing; a directory
\* that cannot be read gives the empty list.
C22_DiscoverSortedConfs ==
    LET Listed(names, entries, val) ==
            LET confs == {i \in DOMAIN names : ConfStemOf[names[i]] # None}
            IN  /\ Len(val) = Cardinality(confs)
                /\ \A i \in confs :
                      Cardinality({k \in DOMAIN val :
                                      /\ val[k].name = ConfStemOf[names[i]]
                                      /\ val[k].config_path = entries[i]}) = 1
                /\ \A k \in 1..(Len(val) - 1) : StrLess(val[k].name, val[k + 1].name)
    IN  last.op = "discover_tunnels" =>
            IF last.ok THEN Listed(last.names, last.entries, last.val)
            ELSE last.val = <<>>

\* a listing in descending order with a file of another extension in it
C22_Witness ==
    /\ last.op = "discover_tunnels"
    /\ last.ok
    /\ last.names = <<"wg0.conf", "notes.txt", "B.conf">>
    /\ Len(last.val) = 2
    /\ last.val[1].name = "B"
    /\ last.val[2].name = "wg0"

\* line i lies inside an Interface section: the last header above it is one
InInterface(lines, i) ==
    \E h \in 1..(i - 1) :
        /\ lines[h].kind = "interface"
        /\ \A j \in (h + 1)..(i - 1) : lines[j].kind \notin {"interface", "section"}

\* C23: is_server_config is true if and only if some key = value line that
\* is no comment and lies inside an Interface section has the key PostUp,
\* PostDown or SaveConfig in any case; such a line in a Peer section, above
\* the first header or behind # or ; does not count.
C23_ServerIffInterfaceHook ==
    LET Hook(lines, i) ==
            /\ lines[i].kind = "pair"
            /\ lines[i].key \in {"PostUp", "PostDown", "SaveConfig"}
            /\ InInterface(lines, i)
    IN  last.op = "is_server_config" =>
            (last.val <=> \E i \in DOMAIN last.lines : Hook(last.lines, i))

\* SaveConfig in capitals under a lower-case header makes a server
C23_Witness ==
    /\ last.op = "is_server_config"
    /\ last.text = "[Peer]\n [interface] \n  SAVECONFIG = true\n"
    /\ last.val

\* C25: parse_interface_value returns the trimmed value of the first
\* key = value line, in file order, that is no comment, lies inside an
\* Interface section and has the asked key in any case; without such a line
\* it returns no value.
C25_FirstInterfaceValue ==
    LET Match(lines, key) ==
            {i \in DOMAIN lines :
                lines[i].kind = "pair" /\ lines[i].key = key /\ InInterface(lines, i)}
        Expected(lines, matches) ==
            IF matches = {} THEN None ELSE lines[MinOf(matches)].value
    IN  last.op = "parse_interface_value" =>
            last.val = Expected(last.lines, Match(last.lines, last.key))

\* of two lines with the key the first one is read, its value trimmed
C25_Witness ==
    /\ last.op = "parse_interface_value"
    /\ last.key = "PrivateKey"
    /\ last.text = "[Interface]\nprivatekey=  k2=  \nPrivateKey = k1=\n"
    /\ last.val = "k2="

\* line i lies inside a Peer section: the last header above it is one
InPeer(lines, i) ==
    \E h \in 1..(i - 1) :
        /\ lines[h].kind = "peer"
        /\ \A j \in (h + 1)..(i - 1) : lines[j].kind \notin {"interface", "peer"}

\* C24: is_full_tunnel_config is true if and only if the AllowedIPs list of
\* some Peer section has 0.0.0.0/0 or ::/0 as a whole element; an AllowedIPs
\* line outside every Peer section or behind # or ; does not make it true.
C24_FullTunnelIffPeerAllowsAll ==
    LET AllowsAll(lines, i) ==
            /\ lines[i].kind = "pair"
            /\ lines[i].key = "AllowedIPs"
            /\ \E k \in DOMAIN lines[i].value : lines[i].value[k] \in {"0.0.0.0/0", "::/0"}
            /\ InPeer(lines, i)
    IN  last.op = "is_full_tunnel_config" =>
            (last.val <=> \E i \in DOMAIN last.lines : AllowsAll(last.lines, i))

\* what holds of the code: the sections play no part
C24_SectionsIgnored ==
    LET AllowsAll(lines, i) ==
            /\ lines[i].kind = "pair"
            /\ lines[i].key = "AllowedIPs"
            /\ \E k \in DOMAIN lines[i].value : lines[i].value[k] \in {"0.0.0.0/0", "::/0"}
    IN  last.op = "is_full_tunnel_config" =>
            (last.val <=> \E i \in DOMAIN last.lines : AllowsAll(last.lines, i))

(***************************************************************************)
(* Properties of the live resync and of the appended text (SpecPeer).      *)
(***************************************************************************)
\* the calls cs and ds are the same apart from the outcome of the removals
SameButRemovals(cs, ds) ==
    /\ Len(cs) = Len(ds)
    /\ \A i \in 1..Len(cs) :
          IF cs[i].call = "remove_temp"
          THEN ds[i].call = "remove_temp" /\ ds[i].target = cs[i].target
          ELSE ds[i] = cs[i]

\* C26: once the four steps of the live resync have run, the removal of the
\* configuration copy and then of the stripped file is called; each file
\* whose removal worked is gone; and a removal that fails is not reported:
\* the result, the files, the interfaces and the other calls are those of
\* the same call with both removals working.
C26_TempsRemovedBestEffort ==
    LET Removals == {i \in 1..Len(calls) : calls[i].call = "remove_temp"}
        Sync == FirstCall(calls, "syncconf")
        SameAs(r) ==
            /\ last.res = r.res
            /\ last.peer = (IF r.res = Ok THEN r.val ELSE NoPeerConfig)
            /\ files = r.w.files
            /\ ifaces = r.w.ifaces
            /\ keyCtr = r.w.keyCtr
            /\ SameButRemovals(calls, r.w.calls)
            /\ TempConf(last.name) \notin DOMAIN r.w.temps
            /\ TempStripped(last.name) \notin DOMAIN r.w.temps
    IN  (last.op = "add_server_peer" /\ CalledOk(calls, "syncconf")) =>
            /\ Removals = {Sync + 1, Sync + 2}
            /\ calls[Sync + 1].target = TempConf(last.name)
            /\ calls[Sync + 2].target = TempStripped(last.name)
            /\ \A i \in Removals : calls[i].ok => calls[i].target \notin DOMAIN temps
            /\ (\E i \in Removals : ~calls[i].ok) =>
                  \E f \in {None, "write_open", "write_data"} :
                      SameAs(add_server_peer(last.name, [last.pre EXCEPT !.calls = <<>>],
                                             Oracle(f)))

\* the copy of the configuration could not be removed: it is still there,
\* the stripped file is gone, and the peer was added all the same
C26_Witness ==
    /\ last.op = "add_server_peer"
    /\ CalledOk(calls, "syncconf")
    /\ \E i \in 1..Len(calls) :
          calls[i].call = "remove_temp" /\ calls[i].target = TempConf(last.name) /\ ~calls[i].ok
    /\ TempConf(last.name) \in DOMAIN temps
    /\ TempStripped(last.name) \notin DOMAIN temps
    /\ last.res = Ok
    /\ files[last.name] # last.pre.files[last.name]

\* the steps of the live resync in the order of the code, and the file each
\* command is given
ResyncOrder == <<"temp_conf", "strip", "temp_stripped", "syncconf">>
ResyncFile(step, name) ==
    IF step \in {"temp_conf", "strip"} THEN TempConf(name) ELSE TempStripped(name)

\* the text has a line of the Interface keys that only wg-quick reads
HasQuickOnlyLine(text) ==
    \E ls \in {Lines(text)} :
        \E i \in 1..Len(ls), k \in {"address", "postup", "postdown", "dns"} :
            StartsWith(LowerStr(Trim(ls[i])), k)

C31_WitnessReconcile ==
    /\ last.op = "add_server_peer"
    /\ last.res = "wg syncconf failed"
    /\ \E i \in 1..Len(calls) :
          calls[i].call = "syncconf" /\ ~calls[i].ok
              /\ calls[i].target = TempStripped(last.name)
    /\ {TempConf(last.name), TempStripped(last.name)} \subseteq DOMAIN temps
    /\ temps[TempConf(last.name)] # temps[TempStripped(last.name)]
    /\ files = last.pre.files

(***************************************************************************)
(* Properties of the export (Spec).                                        *)
(***************************************************************************)
\* C27: export_tunnels_to_zip fails with `No tunnels to export` when
\* discover_tunnels returns no tunnel, and then leaves the destination as it
\* was, neither created nor truncated; with tunnels it does not fail that
\* way, and the archive of a successful call has exactly one entry for each
\* discovered tunnel, named <name>.conf and holding the text of its file.
C27_ExportAllOrNotFound ==
    LET Archive(ts, pre, file) ==
            /\ file.exists
            /\ file.complete
            /\ Len(file.entries) = Len(ts)
            /\ \A k \in 1..Len(ts) :
                  Cardinality({e \in 1..Len(file.entries) :
                                  /\ file.entries[e].name = ts[k].name \o ".conf"
                                  /\ file.entries[e].content = pre.files[ts[k].name]}) = 1
        Exported(ts) ==
            IF Len(ts) = 0
            THEN /\ last.res = "No tunnels to export"
                 /\ last.dest_after = last.dest_before
                 /\ ~Called(calls, "create")
            ELSE /\ last.res # "No tunnels to export"
                 /\ last.res = Ok => Archive(ts, last.pre, last.dest_after)
    IN  last.op = "export_tunnels_to_zip" => Exported(discover_tunnels(last.pre))

\* two tunnels were exported over an older archive
C27_Witness ==
    /\ last.op = "export_tunnels_to_zip"
    /\ last.res = Ok
    /\ last.val = "/tmp/out.zip"
    /\ last.dest_before = OldArchive
    /\ Len(last.dest_after.entries) = 2
    /\ last.dest_after.entries[1].name = "srv.conf"
    /\ last.dest_after.entries[2].name = "wg0.conf"

\* nothing to export: the older archive is as it was
C27_WitnessEmpty ==
    /\ last.op = "export_tunnels_to_zip"
    /\ last.pre.files = NoEntries
    /\ last.res = "No tunnels to export"
    /\ last.dest_before = OldArchive
    /\ last.dest_after = OldArchive

\* the draft passes validate_current at every step of the wizard of that kind
WizardAccepts(kind, draft) ==
    \A step \in 1..Len(IF kind = "Client" THEN ClientStepField ELSE ServerStepField) :
        validate_current([kind |-> kind, step |-> step, draft |-> draft]) = None

\* the draft of the create operation that has just returned is one a wizard
\* can hold at its last step: every step accepted its field, and the private
\* key of a server, which no step edits, is the generated one
FinishedWizardDraft ==
    \/ last.op = "create_tunnel" /\ WizardAccepts("Client", last.draft)
    \/ /\ last.op = "create_server_tunnel"
       /\ WizardAccepts("Server", last.draft)
       /\ ~BlankText(last.draft.private_key)

\* C32: a draft that every step of its wizard accepts is never refused by
\* the field validation of create_tunnel or create_server_tunnel: the call
\* fails only for a name that is taken or for an I/O error.
C32_WizardDraftsAccepted ==
    FinishedWizardDraft => last.res \notin ValidationErrors

\* what the steps do guarantee: the name is never refused afterwards; the
\* create operation refuses such a draft only for a listen port that is no
\* u16 or for a list of allowed IPs without an element
C32_WizardChecksNameAndBlank ==
    FinishedWizardDraft =>
        /\ last.res \notin {ErrNameRequired, ErrNameChars}
        /\ last.res = ErrListenPort =>
              /\ last.op = "create_server_tunnel"
              /\ ~IsU16Literal(Trim(last.draft.listen_port))
        /\ last.res = ErrMissingFields =>
              /\ last.op = "create_tunnel"
              /\ ~HasListItem(last.draft.allowed_ips)
              /\ ~BlankText(last.draft.allowed_ips)

\* the lines of a text that open a Peer section
PeerHeaders(ls) == {i \in 1..Len(ls) : EqIgnoreAsciiCase(Trim(ls[i]), "[Peer]")}

\* C30: the text a successful add_server_peer leaves in the file is the
\* text of before, a line feed if that text did not end with one, an empty
\* line and one [Peer] block with the new public key and AllowedIPs =
\* <allocated>/32; the lines of before are all there, unchanged and in order.
C30_PeerBlockAppended ==
    LET Block(ip) ==
            "\n[Peer]\nPublicKey = " \o PubKeyOf(PrivKey(keyCtr))
            \o "\nAllowedIPs = " \o FmtIpv4(ip) \o "/32\n"
        Kept(before, after) ==
            /\ Len(after) = Len(before) + 4
            /\ SubSeq(after, 1, Len(before)) = before
            /\ after[Len(before) + 1] = ""
            /\ PeerHeaders(after) = PeerHeaders(before) \cup {Len(before) + 2}
        Appended(old, new, base) ==
            /\ new = (IF EndsWith(old, "\n") THEN old ELSE old \o "\n")
                     \o Block(next_peer_ipv4(base, UsedAddresses(base, old)))
            /\ StartsWith(new, old)
            /\ \E before \in {Lines(old)}, after \in {Lines(new)} : Kept(before, after)
    IN  (last.op = "add_server_peer" /\ last.res = Ok) =>
            \E base \in {ServerAddress(TargetText)} :
                Appended(TargetText, files[last.name], base)

\* the block was appended to a file that did not end with a line feed
C30_Witness ==
    /\ last.op = "add_server_peer"
    /\ last.res = Ok
    /\ last.pre.files[last.name] = UnendedServerText
    /\ files[last.name] =
          InitialServerText \o "\n[Peer]\nPublicKey = pk-sk1=\nAllowedIPs = 10.0.0.2/32\n"

(***************************************************************************)
(* More properties of the application at the keyboard (SpecApp).           *)
(***************************************************************************)
\* C29: in the tunnel list the application holds, and in the list a refresh
\* builds from the directory and the interfaces as they are, a tunnel has
\* interface information only if it is marked active, and a tunnel whose
\* interface is down is not marked active and has none.
C29_InfoOnlyIfActive ==
    LET InfoOnlyIfActive(ts) ==
            \A k \in 1..Len(ts) :
                /\ ts[k].interface.some => ts[k].is_active
                /\ ~ts[k].is_active => ts[k].interface = NoInterface
        DownHasNone(ts) ==
            \A k \in 1..Len(ts) :
                ts[k].name \notin DOMAIN ifaces
                => (~ts[k].is_active /\ ~ts[k].interface.some)
        Built(ts) == InfoOnlyIfActive(ts) /\ DownHasNone(ts)
    IN  /\ InfoOnlyIfActive(app.tunnels)
        /\ Built(RefreshedTunnels(World))

\* the list shows a running tunnel with its peers and one that is down
C29_Witness ==
    /\ IsIdle
    /\ app.tunnels = RefreshedTunnels(World)
    /\ \E k \in 1..Len(app.tunnels) :
          /\ app.tunnels[k].is_active
          /\ app.tunnels[k].interface.some
          /\ app.tunnels[k].name \in DOMAIN ifaces
    /\ \E k \in 1..Len(app.tunnels) :
          /\ ~app.tunnels[k].is_active
          /\ app.tunnels[k].interface = NoInterface
          /\ app.tunnels[k].name \notin DOMAIN ifaces

\* the field of the step passes the validator of the step: a name that is
\* not empty and has no white space and no '/', any DNS list, and a value
\* that is not blank for every other field
FieldPasses(field, value) ==
    IF field = "name" THEN ~NameRejected(Trim(value))
    ELSE IF field = "dns" THEN TRUE
    ELSE ~BlankText(value)

\* the number of steps of each wizard
WizardSteps(kind) == IF kind = "Client" THEN 7 ELSE 4

\* keys pressed in a wizard besides those the model's user presses
StrayKeys == {"Backspace", "Tab", "z"}

\* C28: in both wizards Enter on a field that passes the validator of its
\* step moves to the next step, or on the last step calls the create
\* operation once with the draft and closes the wizard; Enter on a field
\* that does not pass leaves the wizard as it is and shows an error; a
\* character and Backspace change the field of the current step only; and
\* no other key calls the create operation or changes the step.
C28_WizardStepByStep ==
    LET OnKey(wz, field, key, r) ==
            LET after == r.a.new_tunnel
                passes == FieldPasses(field, wz.draft[field])
                creates == r.l.op \in {"create_tunnel", "create_server_tunnel"}
            IN  /\ (key = "Enter" /\ ~passes) =>
                      /\ after = wz
                      /\ r.a.message.kind = "Error"
                      /\ r.l = NoCall
                /\ (key = "Enter" /\ passes /\ wz.step < WizardSteps(wz.kind)) =>
                      /\ after = [wz EXCEPT !.step = wz.step + 1]
                      /\ r.l = NoCall
                /\ (key = "Enter" /\ passes /\ wz.step = WizardSteps(wz.kind)) =>
                      /\ r.l.op = (IF wz.kind = "Client" THEN "create_tunnel"
                                   ELSE "create_server_tunnel")
                      /\ r.l.draft = wz.draft
                      /\ after = NoWizard
                /\ key \notin {"Enter", "Esc"} =>
                      /\ after.kind = wz.kind
                      /\ after.step = wz.step
                      /\ \A f \in DOMAIN wz.draft \ {field} : after.draft[f] = wz.draft[f]
                      /\ after.draft[field] =
                            (IF key = "Backspace" THEN Pop(wz.draft[field])
                             ELSE IF Len(key) = 1 THEN wz.draft[field] \o key
                             ELSE wz.draft[field])
                /\ creates => key = "Enter"
                /\ ~creates => (r.l = NoCall /\ r.w = World)
                /\ after.kind # "None" => after.step \in {wz.step, wz.step + 1}
        Open(wz) ==
            \A key \in KeysOffered(app) \cup StrayKeys :
                \A o \in OraclesFor(app, key) :
                    OnKey(wz, IF wz.kind = "Client" THEN ClientStepField[wz.step]
                              ELSE ServerStepField[wz.step],
                          key, handle_key(app, World, key, o))
    IN  (IsIdle /\ Dispatch(app) = "new_tunnel_wizard") => Open(app.new_tunnel)

\* the seventh Enter of the client wizard called create_tunnel with the
\* draft typed step by step, and the wizard is closed
C28_Witness ==
    /\ last.op = "create_tunnel"
    /\ last.res = Ok
    /\ last.draft.private_key = "k"
    /\ last.draft.peer_public_key = "p"
    /\ last.draft.endpoint = "e"
    /\ app.new_tunnel = NoWizard
    /\ app.message.kind = "Success"

\* Enter on the name `wg1/` was refused at step 1
C28_WitnessRefused ==
    /\ app.new_tunnel.kind # "None"
    /\ app.new_tunnel.step = 1
    /\ NameRejected(app.new_tunnel.draft.name)
    /\ app.message = Message("Error", ErrNameChars)

(***************************************************************************)
(* The add-peer flow (SpecApp).                                            *)
(***************************************************************************)
\* the public key of the peer whose client configuration is pending: the
\* key that goes with the private key of the template
PendingPeerKey(a) == PubKeyOf(parse_interface_value(a.pending_peer.template, "PrivateKey"))

\* the peer with that public key is in a configuration file or on a running
\* interface of the world w
PeerPersisted(key, w) ==
    \/ \E n \in DOMAIN w.files : key \in ConfigPeerKeys(w.files[n])
    \/ \E n \in DOMAIN w.ifaces : key \in w.ifaces[n]

\* the step in which Esc at the endpoint prompt or at the DNS prompt drops
\* the pending peer, whose client configuration was never shown
CancelPeer ==
    /\ Dispatch(app) \in {"peer_endpoint_input", "peer_dns_input"}
    /\ app.pending_peer.some
    /\ ~app'.pending_peer.some
    /\ ~app'.peer_config.some

\* C33: when Esc cancels the add-peer flow at the endpoint prompt or at the
\* DNS prompt, the peer of the dropped client configuration is in no
\* configuration file and on no running interface.
C33_CancelledPeerNotPersisted ==
    [][CancelPeer => ~PeerPersisted(PendingPeerKey(app), [files |-> files', ifaces |-> ifaces'])]_vars

\* what the code does: the peer is in the server's file from the key `p` on,
\* while the prompts are open, and Esc changes nothing outside the application
C33_PeerPersistedBeforePrompts ==
    app.pending_peer.some => PeerPersisted(PendingPeerKey(app), World)

C33_CancelChangesNothingOutside ==
    [][CancelPeer => (files' = files /\ ifaces' = ifaces /\ temps' = temps
                        /\ app'.message = Message("Info", "Peer config cancelled"))]_vars

(***************************************************************************)
(* Properties of the overlays (SpecUi).  A property of the form `after     *)
(* every key` is stated on handle_key applied, in each state the event     *)
(* loop waits in, to every key of AllKeys and every outcome of the calls   *)
(* the key can lead to.                                                    *)
(***************************************************************************)
\* every key code the handlers of app.rs match on, and some they do not
AllKeys ==
    {"q", "Esc", CtrlC, "j", "k", "Down", "Up", "g", "G", "Enter", " ", "d", "x", "a", "p",
     "e", "r", "?", "y", "Y", "n", "s", "b", "i", "c", "1", "2", "3", "z", "Backspace", "Tab"}

\* the overlays of the claim that are open in the App a
OpenOverlays(a) ==
    {v \in {"help", "confirm_delete", "confirm_full_tunnel", "add_menu", "import_path",
            "export_path", "new_tunnel_wizard", "peer_endpoint_input", "peer_dns_input",
            "peer_config"} :
        \/ v = "help" /\ a.show_help
        \/ v = "confirm_delete" /\ a.confirm_delete
        \/ v = "confirm_full_tunnel" /\ a.confirm_full_tunnel # None
        \/ v = "add_menu" /\ a.show_add_menu
        \/ v = "import_path" /\ a.input_path # None
        \/ v = "export_path" /\ a.export_path # None
        \/ v = "new_tunnel_wizard" /\ a.new_tunnel.kind # "None"
        \/ v = "peer_endpoint_input" /\ a.peer_endpoint_input # None
        \/ v = "peer_dns_input" /\ a.peer_dns_input # None
        \/ v = "peer_config" /\ a.peer_config.some}

OverlaysExclusive(a) ==
    /\ Cardinality(OpenOverlays(a)) <= 1
    /\ a.peer_save_path # None => a.peer_config.some
    /\ (a.peer_endpoint_input # None \/ a.peer_dns_input # None) => a.pending_peer.some

\* the event loop waits for a key
AtPoll == IsIdle /\ ~app.should_quit

\* C34: in every state at most one of the help overlay, the two
\* confirmations, the add menu, the import and export prompts, the wizard,
\* the endpoint and DNS prompts and the peer-config view is open; the save
\* path prompt is open only with the peer-config view; the endpoint and DNS
\* prompts are open only while a pending peer is held.  This holds of the
\* state and of the state every key leads to.
C34_OverlaysExclusive ==
    /\ OverlaysExclusive(app)
    /\ AtPoll =>
          \A key \in AllKeys : \A o \in UiOraclesFor(app, KeyCodeOf(key)) :
              \E r \in {handle_key(app, World, key, o)} : OverlaysExclusive(r.a)

\* the save path prompt is open over the peer-config view
C34_Witness ==
    /\ app.peer_save_path # None
    /\ app.peer_config.some
    /\ OpenOverlays(app) = {"peer_config"}
    /\ ~app.pending_peer.some

\* the DNS prompt is open, alone, with the pending peer held
C34_WitnessPrompt ==
    /\ OpenOverlays(app) = {"peer_dns_input"}
    /\ app.pending_peer.some

\* the calls of wireguard.rs that the keys of the list make
ToggleOps == {"wg_quick up", "wg_quick down"}

\* C35: should_quit becomes true exactly when q, Esc or Ctrl-C is pressed
\* while nothing is open.  A key pressed while an overlay, a prompt or a
\* wizard is open never quits and never does what the key does on the list:
\* it adds no peer, refreshes nothing on request, opens no confirmation, no
\* export prompt, no menu and no help, and toggles a tunnel only as the
\* answer to the full-tunnel warning.  Any key pressed while the help
\* overlay is shown closes the overlay and does nothing else.
C35_QuitOnlyFromList ==
    AtPoll =>
        \A key \in AllKeys : \A o \in UiOraclesFor(app, KeyCodeOf(key)) :
            \E r \in {handle_key(app, World, key, o)} :
            LET to == Dispatch(app)
                Opened(v) == v \in OpenOverlays(r.a) /\ v \notin OpenOverlays(app)
            IN  /\ r.a.should_quit <=> (to = "global" /\ key \in {"q", "Esc", CtrlC})
                /\ to # "global" =>
                      /\ r.l.op # "add_server_peer"
                      /\ r.l.op \in ToggleOps => to = "confirm_full_tunnel"
                      /\ r.l.op = "delete_tunnel" => to = "confirm_delete"
                      /\ r.a.message # Message("Info", "Refreshed")
                      /\ \A v \in {"help", "confirm_delete", "confirm_full_tunnel",
                                   "export_path", "add_menu"} : ~Opened(v)
                      /\ r.a.show_details = app.show_details
                      /\ r.l.op = "idle" =>
                            /\ r.a.tunnels = app.tunnels
                            /\ r.a.selected = app.selected
                /\ to = "help" =>
                      /\ r.a = [app EXCEPT !.show_help = FALSE, !.message = NoMessage]
                      /\ r.w = World
                      /\ r.l = NoCall

\* q on the list has set should_quit
C35_Witness ==
    /\ app.should_quit
    /\ OpenOverlays(app) = {}

\* the help overlay is shown: q closes it and does not quit
C35_WitnessHelp ==
    /\ AtPoll
    /\ app.show_help
    /\ ~handle_key(app, World, "q", Oracle(None)).a.show_help
    /\ ~handle_key(app, World, "q", Oracle(None)).a.should_quit

\* C36: delete_tunnel is called only for y or Y in the open delete
\* confirmation, on the tunnel that is selected, which is the one that was
\* selected when x opened the confirmation; every other key closes the
\* confirmation and calls nothing; x opens the confirmation only if a tunnel
\* is selected, and leaves the selection as it is.
C36_DeleteOnlyOnYes ==
    /\ app.confirm_delete => HasSelected(app)
    /\ AtPoll =>
          \A key \in AllKeys : \A o \in UiOraclesFor(app, KeyCodeOf(key)) :
              \E r \in {handle_key(app, World, key, o)} :
              LET to == Dispatch(app)
              IN  /\ r.l.op = "delete_tunnel" <=>
                        (to = "confirm_delete" /\ key \in {"y", "Y"})
                  /\ r.l.op = "delete_tunnel" =>
                        /\ r.l.name = SelectedTunnel(app).name
                        /\ r.l.is_active = SelectedTunnel(app).is_active
                        /\ ~r.a.confirm_delete
                  /\ (to = "confirm_delete" /\ key \notin {"y", "Y"}) =>
                        /\ r.a = [app EXCEPT !.confirm_delete = FALSE,
                                             !.message = Message("Info", "Delete cancelled")]
                        /\ r.w = World
                        /\ r.l = NoCall
                  /\ r.l.op # "delete_tunnel" =>
                        /\ \A i \in 1..Len(r.w.calls) :
                              r.w.calls[i].call # "remove_file"
                        /\ DOMAIN World.files \subseteq DOMAIN r.w.files
                  /\ (r.a.confirm_delete /\ ~app.confirm_delete) =>
                        /\ to = "global" /\ key = "x" /\ HasSelected(app)
                        /\ r.a = [app EXCEPT !.confirm_delete = TRUE, !.message = NoMessage]
                  /\ (to = "global" /\ key = "x" /\ ~HasSelected(app)) =>
                        r.a = [app EXCEPT !.message = NoMessage]

\* y in the confirmation has deleted the selected tunnel
C36_Witness ==
    /\ last.op = "delete_tunnel"
    /\ last.res = Ok
    /\ last.name \in DOMAIN last.pre.files
    /\ last.name \notin DOMAIN files
    /\ ~app.confirm_delete

\* the list is empty: x opens nothing
C36_WitnessNothingSelected ==
    /\ AtPoll
    /\ Dispatch(app) = "global"
    /\ Len(app.tunnels) = 0
    /\ ~handle_key(app, World, "x", Oracle(None)).a.confirm_delete

\* C37: `wg-quick up` is called for a tunnel whose configuration
\* is_full_tunnel_config detects as a full tunnel only by y or Y in the
\* full-tunnel warning, which was opened for that tunnel by the key before;
\* every other answer closes the warning and calls nothing; Enter on a
\* tunnel of the list that is active calls `wg-quick down` at once and opens
\* no warning.
C37_FullTunnelNeedsYes ==
    /\ app.confirm_full_tunnel # None =>
          \E k \in 1..Len(app.tunnels) :
              app.tunnels[k].name = app.confirm_full_tunnel /\ ~app.tunnels[k].is_active
    /\ AtPoll =>
          \A key \in AllKeys : \A o \in UiOraclesFor(app, KeyCodeOf(key)) :
              \E r \in {handle_key(app, World, key, o)} :
              LET to == Dispatch(app)
              IN  /\ (r.l.op = "wg_quick up" /\ is_full_tunnel_config(r.l.name, World)) =>
                        /\ to = "confirm_full_tunnel"
                        /\ key \in {"y", "Y"}
                        /\ r.l.name = app.confirm_full_tunnel
                  /\ (to = "confirm_full_tunnel" /\ key \in {"y", "Y"}) =>
                        /\ r.l.op = "wg_quick up"
                        /\ r.l.name = app.confirm_full_tunnel
                        /\ r.a.confirm_full_tunnel = None
                  /\ (to = "confirm_full_tunnel" /\ key \notin {"y", "Y"}) =>
                        /\ r.a = [app EXCEPT !.confirm_full_tunnel = None,
                                             !.message = Message("Info", "Enable cancelled")]
                        /\ r.w = World
                        /\ r.l = NoCall
                  /\ (r.a.confirm_full_tunnel # None /\ app.confirm_full_tunnel = None) =>
                        /\ to = "global" /\ key \in {"Enter", " "} /\ HasSelected(app)
                        /\ r.a = [app EXCEPT !.confirm_full_tunnel = SelectedTunnel(app).name,
                                             !.message = NoMessage]
                        /\ ~SelectedTunnel(app).is_active
                        /\ is_full_tunnel_config(SelectedTunnel(app).name, World)
                        /\ r.w = World
                        /\ r.l = NoCall
                  /\ (to = "global" /\ key \in {"Enter", " "} /\ HasSelected(app)
                        /\ SelectedTunnel(app).is_active) =>
                        /\ r.l.op = "wg_quick down"
                        /\ r.l.name = SelectedTunnel(app).name
                        /\ r.a.confirm_full_tunnel = None

\* y in the warning has brought the full tunnel up
C37_Witness ==
    /\ last.op = "wg_quick up"
    /\ last.res = Ok
    /\ is_full_tunnel_config(last.name, last.pre)
    /\ last.name \in DOMAIN ifaces
    /\ app.confirm_full_tunnel = None

\* the full tunnel is up and selected: Enter brings it down without a warning
C37_WitnessDown ==
    /\ last.op = "wg_quick down"
    /\ last.res = Ok
    /\ is_full_tunnel_config(last.name, last.pre)
    /\ last.name \notin DOMAIN ifaces
    /\ app.confirm_full_tunnel = None

\* C38: in every state the selected index is None if the list of tunnels is
\* empty and otherwise an index of the list.
C38_SelectionValid ==
    IF Len(app.tunnels) = 0 THEN app.selected = NoInt
    ELSE app.selected # NoInt /\ app.selected >= 0 /\ app.selected < Len(app.tunnels)

\* what holds instead: the index is an index of a list that is not empty,
\* and on an empty list it is None or, after g or G, Some(0), for which
\* App::selected returns no tunnel
C38_SelectionValidUnlessEmpty ==
    /\ Len(app.tunnels) # 0 =>
          app.selected # NoInt /\ app.selected >= 0 /\ app.selected < Len(app.tunnels)
    /\ Len(app.tunnels) = 0 => app.selected \in {NoInt, 0} /\ ~HasSelected(app)

(***************************************************************************)
(* More properties of the allocation (SpecAlloc).                          *)
(***************************************************************************)
\* the last octets 1 .. 254 of the hosts of the /24 of base, but for base
\* itself, that are not in used
FreeHostOctets(base, used) ==
    {c \in 1..(U8Max - 1) :
        c # base[4] /\ <<base[1], base[2], base[3], c>> \notin used}

\* C39: next_peer_ipv4(base, used) returns no address only if every host of
\* the /24 of base with a last octet in 1 .. 254, but for base itself, is in
\* used: whenever one is free an address is returned, whatever the last
\* octet of base.
C39_ExhaustedOnlyIfFull ==
    last.op = "next_peer_ipv4" =>
        (FreeHostOctets(last.base, last.used) # {} => Allocated)

\* what the code does: it returns no address exactly when every free host
\* is one of the two below the last octet of base, which the 253 steps do
\* not reach; with a base that ends in 1 these are 0 and 255, no hosts
C39_ExhaustedIffOnlyUnreached ==
    LET Below(base) == {(base[4] + U8Mod - 1) % U8Mod, (base[4] + U8Mod - 2) % U8Mod}
    IN  last.op = "next_peer_ipv4" =>
            /\ ~Allocated <=> FreeHostOctets(last.base, last.used) \subseteq Below(last.base)
            /\ last.base[4] = 1 =>
                  (~Allocated <=> FreeHostOctets(last.base, last.used) = {})

(***************************************************************************)
(* The files the create operations write, read back (Spec).                *)
(***************************************************************************)
\* what the drafts of the model say, written down by hand: the elements of
\* the address lists, those that are IPv4 addresses, and the listen ports
\* in decimal without sign and leading zeros
DraftAddressItems(address) ==
    CASE address = "10.0.0.1/32" -> <<"10.0.0.1/32">>
      [] address = " fd00::1/64 ,10.0.7.1/24 " -> <<"fd00::1/64", "10.0.7.1/24">>
      [] address = "fd00::1/64" -> <<"fd00::1/64">>
      [] OTHER -> <<>>
Ipv4Items == {"10.0.0.1/32", "10.0.7.1/24"}
DraftPortDecimal(listen_port) ==
    CASE listen_port = "51820" -> "51820"
      [] listen_port = " 65535 " -> "65535"
      [] listen_port = "+80" -> "80"
      [] listen_port = "0080" -> "80"
      [] OTHER -> None

\* v is the text without the white space around it
TrimmedOf(text, v) ==
    /\ v # ""
    /\ CharAt(v, 1) \notin WhitespaceChars
    /\ CharAt(v, Len(v)) \notin WhitespaceChars
    /\ \E i \in 1..Len(text) :
          /\ SubSeq(text, i, i + Len(v) - 1) = v
          /\ BlankText(SubSeq(text, 1, i - 1))
          /\ BlankText(SubSeq(text, i + Len(v), Len(text)))

\* C40: the file create_server_tunnel has written is a server configuration
\* for is_server_config, and the readers of add_server_peer find in it the
\* elements of the draft's address, the draft's port in decimal and the
\* trimmed private key, so that add_server_peer on it passes every check if
\* the address has an IPv4 element; the file create_tunnel has written is
\* not a server configuration, and add_server_peer refuses it as such.
C40_CreatedFilesReadBack ==
    LET content == files[last.name]
        plan == PeerPlan(last.name, World)
        items == DraftAddressItems(last.draft.address)
        HasIpv4 == \E k \in 1..Len(items) : items[k] \in Ipv4Items
    IN  /\ (last.op = "create_server_tunnel" /\ last.res = Ok) =>
              /\ is_server_config(content)
              /\ items # <<>>
              /\ parse_interface_addresses(content) = items
              /\ parse_interface_value(content, "ListenPort")
                    = DraftPortDecimal(last.draft.listen_port)
              /\ TrimmedOf(last.draft.private_key,
                           parse_interface_value(content, "PrivateKey"))
              /\ HasIpv4 =>
                    /\ plan.res = Ok
                    /\ FmtInt(plan.listen_port) = DraftPortDecimal(last.draft.listen_port)
                    /\ TrimmedOf(last.draft.private_key, plan.private_key)
                    /\ FmtIpv4(plan.peer_ip) \o "/32" \notin Ipv4Items
              /\ ~HasIpv4 => plan.res = "Server config has no IPv4 address"
        /\ (last.op = "create_tunnel" /\ last.res = Ok) =>
              /\ ~is_server_config(content)
              /\ plan.res = "Selected tunnel is not a server config"

\* a server was created from a draft with a padded list of two addresses, a
\* padded key and the port 0080: the IPv4 address is found behind the IPv6
\* one and the port reads 80
C40_Witness ==
    /\ last.op = "create_server_tunnel"
    /\ last.res = Ok
    /\ last.draft.listen_port = "0080"
    /\ parse_interface_value(files[last.name], "ListenPort") = "80"
    /\ parse_interface_value(files[last.name], "PrivateKey") = "skey9="
    /\ PeerPlan(last.name, World).res = Ok
    /\ PeerPlan(last.name, World).peer_ip = <<10, 0, 7, 2>>

\* a client was created: add_server_peer refuses its file
C40_WitnessClient ==
    /\ last.op = "create_tunnel"
    /\ last.res = Ok
    /\ PeerPlan(last.name, World).res = "Selected tunnel is not a server config"
====
